---- MODULE Spec2Model ----
(***************************************************************************)
(* Model of the gekko transaction library (lamafab/gekko): the SCALE       *)
(* encodings of the transaction primitives, the signed-transaction         *)
(* builder, the transaction envelope codec, the generated extrinsic        *)
(* types, and the metadata collector (Spec is the builder's state machine, *)
(* SpecCollector the collector's, SpecLibrary applies the library's pure   *)
(* operations to inputs drawn from bounded sets).                          *)
(*                                                                         *)
(* Conventions.  A byte string is a sequence of integers 0..255.  An       *)
(* Option is a sequence of length at most one: <<>> is None, <<v>> is      *)
(* Some(v).  A decoder takes the remaining input and returns               *)
(* [ok, v, rest]: ok is FALSE on a decode error, v is the decoded value    *)
(* (in a sequence) and rest the input that was not consumed.  Integers of  *)
(* the model stay below 2^31.                                              *)
(***************************************************************************)
EXTENDS Integers, Sequences, FiniteSets, TLC

VARIABLES
    builder,    \* the SignedTransactionBuilder's fields
    pc,         \* "builder", "built", "encoded", "decoded", "drafted"
    result,     \* outcome of build() / new_unsigned(): [status, err, tx]
    signed,     \* every signing operation performed so far, in order
    encoded,    \* bytes produced by Transaction::encode
    decoded,    \* outcome of Transaction::decode: [status, tx]
    handed      \* bytes a SignaturePayload encoder handed to its closure

\* the variables of the transaction builder
bvars == <<builder, pc, result, signed, encoded, decoded, handed>>

VARIABLES
    config,     \* Config.collectors: one CollectorConfig per collector task
    chain,      \* the head block number of every node, and the blocks gained
    runs,       \* how many times run() has been started
    run_pc,     \* position of run(): "recv" or "returned"
    chan,       \* messages buffered in the shutdown channel (capacity one)
    collector,  \* per task, its position and the locals of do_run::local
    files,      \* the file system: path -> sequence of chunks written
    touched,    \* per task, the paths it has read, created or written
    at_stop     \* the file system and the heads when run() was last stopped
                \* with every task caught up

\* the variables of the metadata collector
cvars == <<config, chain, runs, run_pc, chan, collector, files, touched, at_stop>>

VARIABLES
    called,     \* the library operation that was called last ("" for none)
    given,      \* the argument it was called with
    returned    \* what it returned

\* the variables of a call of a pure library operation
lvars == <<called, given, returned>>

vars == <<bvars, cvars, lvars>>

-----------------------------------------------------------------------------
(* Bounds of the model.                                                    *)

\* nonces offered to the builder are 0, 64, ..., 64 * MaxNonceStep
MaxNonceStep == 1
\* signature byte patterns a signer may return are 170 .. 170 + MaxSigFill
MaxSigFill == 0
\* spec versions offered to spec_version() are 9080 .. 9080 + MaxSpecStep
MaxSpecStep == 0
\* mortal periods offered to the Mortality codec are 2^2 .. 2^MaxPeriodLog
MaxPeriodLog == 16
\* the metadata offered to the extrinsic lookup has at most MaxModules modules
MaxModules == 2

-----------------------------------------------------------------------------
(* Byte-string helpers and the SCALE primitives used by the library.       *)

Fill(n, b) == [i \in 1..n |-> b]

None == <<>>
Some(v) == <<v>>

Max(a, b) == IF a >= b THEN a ELSE b
Min(a, b) == IF a <= b THEN a ELSE b

RECURSIVE Pow2(_)
Pow2(n) == IF n = 0 THEN 1 ELSE 2 * Pow2(n - 1)

\* little-endian bytes of n in w bytes
LEBytes(n, w) == [i \in 1..w |-> (n \div Pow2(8 * (i - 1))) % 256]

RECURSIVE FromLE(_)
FromLE(bs) == IF bs = <<>> THEN 0 ELSE Head(bs) + 256 * FromLE(Tail(bs))

Drop(s, n) == SubSeq(s, n + 1, Len(s))
Take(s, n) == SubSeq(s, 1, n)

DecodeErr == [ok |-> FALSE, v |-> <<>>, rest |-> <<>>]
DecodeOk(v, rest) == [ok |-> TRUE, v |-> <<v>>, rest |-> rest]

\* Input::read_byte and Input::read: a short read is an error
ReadBytes(input, n) ==
    IF Len(input) < n THEN DecodeErr
    ELSE DecodeOk(Take(input, n), Drop(input, n))

\* u32 / u16 fixed width
U32_encode(n) == LEBytes(n, 4)
U16_encode(n) == LEBytes(n, 2)

\* Compact<u32> / Compact<u128>: mode in the two low bits of the first byte
Compact_encode(n) ==
    IF n < 64 THEN <<4 * n>>
    ELSE IF n < 16384 THEN LEBytes(4 * n + 1, 2)
    ELSE IF n < 1073741824 THEN <<4 * (n % 64) + 2>> \o LEBytes(n \div 64, 3)
    ELSE <<3>> \o LEBytes(n, 4)

Compact_decode(input) ==
    IF input = <<>> THEN DecodeErr
    ELSE LET first == Head(input)
             mode == first % 4
         IN  CASE mode = 0 -> DecodeOk(first \div 4, Tail(input))
               [] mode = 1 ->
                    IF Len(input) < 2 THEN DecodeErr
                    ELSE LET x == (first \div 4) + 64 * input[2]
                         IN  IF x > 63 THEN DecodeOk(x, Drop(input, 2))
                             ELSE DecodeErr
               [] mode = 2 ->
                    IF Len(input) < 4 THEN DecodeErr
                    ELSE LET x == (first \div 4) + 64 * FromLE(SubSeq(input, 2, 4))
                         IN  IF x > 16383 THEN DecodeOk(x, Drop(input, 4))
                             ELSE DecodeErr
               [] OTHER ->
                    \* big-integer mode; only the four-byte form fits the
                    \* integers of the model
                    IF first \div 4 # 0 \/ Len(input) < 5 \/ input[5] > 127
                    THEN DecodeErr
                    ELSE LET x == FromLE(SubSeq(input, 2, 5))
                         IN  IF x > 1073741823 THEN DecodeOk(x, Drop(input, 5))
                             ELSE DecodeErr

\* BLAKE2b-256 stand-in: a 32-byte string that is a function of the input
\* (its length and its bytes at eight positions spread over it)
blake2b(bs) ==
    LET n == Len(bs)
        At(i) == IF n = 0 THEN 0 ELSE bs[1 + ((i * (n - 1)) \div 7)]
    IN  <<n % 256, (n \div 256) % 256>> \o [i \in 1..8 |-> At(i - 1)]
            \o Fill(22, 178)

-----------------------------------------------------------------------------
(* Primitives: Network, Balance, Mortality, AccountId, MultiSignature.     *)

Networks == {"Polkadot", "Kusama", "Westend", "Custom"}

\* the genesis hash carried by the Network::Custom values of the model
CustomGenesis == Fill(32, 7)

Network_genesis(network) ==
    CASE network = "Polkadot" ->
           <<145, 177, 113, 187, 21, 142, 45, 56, 72, 250, 35, 169, 241, 194,
             81, 130, 251, 142, 32, 49, 59, 44, 30, 180, 146, 25, 218, 122,
             112, 206, 144, 195>>
      [] network = "Kusama" ->
           <<176, 168, 212, 147, 40, 92, 45, 247, 50, 144, 223, 183, 230, 31,
             135, 15, 23, 180, 24, 1, 25, 122, 20, 156, 169, 54, 84, 73, 158,
             163, 218, 254>>
      [] network = "Westend" ->
           <<225, 67, 242, 56, 3, 172, 80, 232, 246, 248, 230, 38, 149, 209,
             206, 158, 78, 29, 104, 170, 54, 193, 205, 44, 253, 21, 52, 2, 19,
             243, 66, 62>>
      [] OTHER -> CustomGenesis

\* default spec versions of the generated runtime modules
kusama_SPEC_VERSION == 9080
polkadot_SPEC_VERSION == 9050

\* A Balance is <<balance, unit>>: the amount in base units and the base unit.
Balance_as_base_unit(b) == b[1]

Balance_using_encoded(b) == Compact_encode(b[1])

\* faulty variant of Balance_decode: decodes the compact amount, with base unit 1
Balance_decode_Compact(input) ==
    LET n == Compact_decode(input)
    IN  IF ~n.ok THEN DecodeErr ELSE DecodeOk(<<n.v[1], 1>>, n.rest)

Balance_decode(input) == DecodeErr

\* Mortality: [tag |-> "Immortal"] is modelled with period = phase = 0.
Immortal == [tag |-> "Immortal", period |-> 0, phase |-> 0, birth |-> None]
Mortal(period, phase, birth) ==
    [tag |-> "Mortal", period |-> period, phase |-> phase, birth |-> birth]

RECURSIVE trailing_zeros(_)
trailing_zeros(n) ==
    IF n = 0 THEN 64
    ELSE IF n % 2 = 1 THEN 0
    ELSE 1 + trailing_zeros(n \div 2)

\* a faulty encoder that stores trailing_zeros(period) itself in the low nibble
Mortality_using_encoded_NoMinusOne(m) ==
    IF m.tag = "Immortal" THEN <<0>>
    ELSE LET quantize_factor == Max(m.period \div 4096, 1)
             low == Min(Max(trailing_zeros(m.period), 1), 15)
             high == ((m.phase \div quantize_factor) * 16) % 65536
         IN  U16_encode(low + high)

Mortality_using_encoded(m) ==
    IF m.tag = "Immortal" THEN <<0>>
    ELSE LET quantize_factor == Max(m.period \div 4096, 1)
             \* u32 subtraction; an odd period wraps to u32::MAX
             tz == trailing_zeros(m.period)
             low == IF tz = 0 THEN 15 ELSE Min(Max(tz - 1, 1), 15)
             high == ((m.phase \div quantize_factor) * 16) % 65536
         IN  U16_encode(low + high)

Mortality_decode(input) ==
    IF input = <<>> THEN DecodeErr
    ELSE LET first == Head(input)
         IN  IF first = 0 THEN DecodeOk(Immortal, Tail(input))
             ELSE IF Len(input) < 2 THEN DecodeErr
             ELSE LET enc == first + 256 * input[2]
                      period == 2 * Pow2(enc % 16)
                      quantize_factor == Max(period \div 4096, 1)
                      phase == (enc \div 16) * quantize_factor
                  IN  IF period >= 4 /\ phase < period
                      THEN DecodeOk(Mortal(period, phase, None), Drop(input, 2))
                      ELSE DecodeErr

\* AccountId: 32 bytes, encoded behind the MultiAddress index 0
AccountId_using_encoded(a) == <<0>> \o a

AccountId_decode(input) ==
    IF input = <<>> THEN DecodeErr
    ELSE IF Head(input) # 0 THEN DecodeErr
    ELSE ReadBytes(Tail(input), 32)

\* MultiKeyPair: [scheme, public]; MultiSignature: [scheme, bytes]
Schemes == {"Ed25519", "Sr25519", "Ecdsa"}

KeyPair(scheme) ==
    [scheme |-> scheme,
     public |-> Fill(IF scheme = "Ecdsa" THEN 33 ELSE 32,
                     CASE scheme = "Ed25519" -> 17
                       [] scheme = "Sr25519" -> 34
                       [] OTHER -> 51)]

SignatureLen(scheme) == IF scheme = "Ecdsa" THEN 65 ELSE 64

SchemeIndex(scheme) ==
    CASE scheme = "Ed25519" -> 0 [] scheme = "Sr25519" -> 1 [] OTHER -> 2

\* the byte patterns a signature can take: signing is opaque to the library
SigFills == 170..(170 + MaxSigFill)

\* Pair::sign wrapped into MultiSignature by the From impls
Sign(pair, message, fill) ==
    [scheme |-> pair.scheme, bytes |-> Fill(SignatureLen(pair.scheme), fill)]

MultiSignature_using_encoded(sig) == <<SchemeIndex(sig.scheme)>> \o sig.bytes

MultiSignature_decode(input) ==
    IF input = <<>> THEN DecodeErr
    ELSE LET idx == Head(input)
             scheme == CASE idx = 0 -> "Ed25519" [] idx = 1 -> "Sr25519"
                         [] OTHER -> "Ecdsa"
             body == ReadBytes(Tail(input), SignatureLen(scheme))
         IN  IF idx > 2 \/ ~body.ok THEN DecodeErr
             ELSE DecodeOk([scheme |-> scheme, bytes |-> body.v[1]], body.rest)

\* From<MultiKeyPair> for AccountId: <<>> stands for the unimplemented!() arm
AccountId_from_MultiKeyPair(pair) ==
    IF pair.scheme = "Ecdsa" THEN None ELSE Some(pair.public)

-----------------------------------------------------------------------------
(* Calls.  A call is [kind, module_id, dispatch_id, args]; an argument is  *)
(* [ty, v] with v a sequence of integers:                                  *)
(*   "u32" <<n>>, "String" bytes, "VecU32" numbers, "AccountId" 32 bytes,  *)
(*   "Balance" <<balance, unit>>.                                          *)
(* kind "derived" is a struct with #[derive(Encode, Decode)], kind         *)
(* "generated" a type emitted by the generator from the runtime metadata.  *)

RECURSIVE VecU32_encode(_)
VecU32_encode(ns) ==
    IF ns = <<>> THEN <<>> ELSE U32_encode(Head(ns)) \o VecU32_encode(Tail(ns))

RECURSIVE VecU32_items(_, _)
VecU32_items(input, n) ==
    IF n = 0 THEN DecodeOk(<<>>, input)
    ELSE IF Len(input) < 4 THEN DecodeErr
    ELSE LET more == VecU32_items(Drop(input, 4), n - 1)
         IN  IF ~more.ok THEN DecodeErr
             ELSE DecodeOk(<<FromLE(Take(input, 4))>> \o more.v[1], more.rest)

Arg_encode(a) ==
    CASE a.ty = "u32" -> U32_encode(a.v[1])
      [] a.ty = "String" -> Compact_encode(Len(a.v)) \o a.v
      [] a.ty = "VecU32" -> Compact_encode(Len(a.v)) \o VecU32_encode(a.v)
      [] a.ty = "AccountId" -> AccountId_using_encoded(a.v)
      [] OTHER -> Balance_using_encoded(a.v)

Arg_decode(ty, input) ==
    CASE ty = "u32" ->
           IF Len(input) < 4 THEN DecodeErr
           ELSE DecodeOk(<<FromLE(Take(input, 4))>>, Drop(input, 4))
      [] ty = "String" ->
           LET n == Compact_decode(input)
           IN  IF ~n.ok THEN DecodeErr ELSE ReadBytes(n.rest, n.v[1])
      [] ty = "VecU32" ->
           LET n == Compact_decode(input)
           IN  IF ~n.ok THEN DecodeErr ELSE VecU32_items(n.rest, n.v[1])
      [] ty = "AccountId" -> AccountId_decode(input)
      [] OTHER -> Balance_decode(input)

RECURSIVE Args_encode(_)
Args_encode(args) ==
    IF args = <<>> THEN <<>> ELSE Arg_encode(Head(args)) \o Args_encode(Tail(args))

\* decode each field in declared order; the first error aborts
RECURSIVE Args_decode(_, _)
Args_decode(tys, input) ==
    IF tys = <<>> THEN DecodeOk(<<>>, input)
    ELSE LET a == Arg_decode(Head(tys), input)
         IN  IF ~a.ok THEN DecodeErr
             ELSE LET more == Args_decode(Tail(tys), a.rest)
                  IN  IF ~more.ok THEN DecodeErr
                      ELSE DecodeOk(<<[ty |-> Head(tys), v |-> a.v[1]]>> \o more.v[1],
                                    more.rest)

\* the type a call is decoded at
CallType(c) ==
    [kind |-> c.kind, module_id |-> c.module_id, dispatch_id |-> c.dispatch_id,
     tys |-> [i \in 1..Len(c.args) |-> c.args[i].ty]]

\* Encode of a generated extrinsic type
Generated_using_encoded(c) == <<c.module_id, c.dispatch_id>>

\* Decode of a generated extrinsic type
Generated_decode(type, input) ==
    LET buffer == ReadBytes(input, 2)
    IN  IF ~buffer.ok THEN DecodeErr
        ELSE IF buffer.v[1] # <<type.module_id, type.dispatch_id>> THEN DecodeErr
        ELSE LET args == Args_decode(type.tys, buffer.rest)
             IN  IF ~args.ok THEN DecodeErr
                 ELSE DecodeOk([kind |-> type.kind, module_id |-> type.module_id,
                                dispatch_id |-> type.dispatch_id,
                                args |-> args.v[1]], args.rest)

\* #[derive(Encode, Decode)] on a struct: the fields in declared order
Derived_using_encoded(c) == Args_encode(c.args)

Derived_decode(type, input) ==
    LET args == Args_decode(type.tys, input)
    IN  IF ~args.ok THEN DecodeErr
        ELSE DecodeOk([kind |-> type.kind, module_id |-> type.module_id,
                       dispatch_id |-> type.dispatch_id, args |-> args.v[1]],
                      args.rest)

\* the Call: Encode / Call: Decode bounds of Transaction and SignaturePayload
Call_encode(c) ==
    IF c.kind = "generated" THEN Generated_using_encoded(c)
    ELSE Derived_using_encoded(c)

Call_decode(type, input) ==
    IF type.kind = "generated" THEN Generated_decode(type, input)
    ELSE Derived_decode(type, input)

\* the test struct SomeExtrinsic { a: u32, b: String, c: Vec<u32> }
SomeExtrinsic(a, b, c) ==
    [kind |-> "derived", module_id |-> 0, dispatch_id |-> 0,
     args |-> <<[ty |-> "u32", v |-> <<a>>], [ty |-> "String", v |-> b],
                [ty |-> "VecU32", v |-> c]>>]

\* balances::TransferKeepAlive { dest: A, value: B } at A = AccountId, B = Balance
TransferKeepAlive(dest, value) ==
    [kind |-> "generated", module_id |-> 4, dispatch_id |-> 3,
     args |-> <<[ty |-> "AccountId", v |-> dest], [ty |-> "Balance", v |-> value]>>]

\* a call struct with #[derive(Encode, Decode)] that has a Balance field
DerivedTransfer(dest, value) ==
    [kind |-> "derived", module_id |-> 0, dispatch_id |-> 0,
     args |-> <<[ty |-> "AccountId", v |-> dest], [ty |-> "Balance", v |-> value]>>]

\* a generated extrinsic without arguments
NoArgExtrinsic(module_id, dispatch_id) ==
    [kind |-> "generated", module_id |-> module_id, dispatch_id |-> dispatch_id,
     args |-> <<>>]

-----------------------------------------------------------------------------
(* Payload, ExtraSignaturePayload, SignaturePayload and Transaction.       *)

TX_VERSION == 4

\* #[derive(Encode, Decode)] struct Payload { mortality, #[compact] nonce,
\* #[compact] payment }
Payload_encode(p) ==
    Mortality_using_encoded(p.mortality) \o Compact_encode(p.nonce)
        \o Compact_encode(p.payment)

Payload_decode(input) ==
    LET m == Mortality_decode(input)
    IN  IF ~m.ok THEN DecodeErr
        ELSE LET n == Compact_decode(m.rest)
             IN  IF ~n.ok THEN DecodeErr
                 ELSE LET f == Compact_decode(n.rest)
                      IN  IF ~f.ok THEN DecodeErr
                          ELSE DecodeOk([mortality |-> m.v[1], nonce |-> n.v[1],
                                         payment |-> f.v[1]], f.rest)

\* #[derive(Encode)] struct ExtraSignaturePayload
ExtraSignaturePayload_encode(e) ==
    U32_encode(e.spec_version) \o U32_encode(e.tx_version) \o e.genesis \o e.birth

\* the tuple (&call, &payload, &extra) encoded as a whole
SigBytes(c, p, e) ==
    Call_encode(c) \o Payload_encode(p) \o ExtraSignaturePayload_encode(e)

\* SignaturePayload::using_encoded of transaction/v4.rs: what the closure gets
SignaturePayload_using_encoded(c, p, e) ==
    LET payload == SigBytes(c, p, e)
    IN  IF Len(payload) > 256 THEN blake2b(payload) ELSE payload

\* the same encoder in the other signature-payload modules of the repository
SignaturePayload_using_encoded_transaction_version_v4(c, p, e) ==
    LET payload == SigBytes(c, p, e)
    IN  IF Len(payload) > 32 THEN blake2b(payload) ELSE payload

SignaturePayload_using_encoded_extrinsic_version_v4(c, p, e) ==
    LET payload == SigBytes(c, p, e)
    IN  IF Len(payload) > 256 THEN blake2b(payload) ELSE payload

SignedPayload_using_encoded(c, p, e) ==
    LET payload == SigBytes(c, p, e)
    IN  IF Len(payload) > 256 THEN blake2b(payload) ELSE payload

Encoders == {"transaction_version_v4", "extrinsic_version_v4", "interface_lib"}

EncoderOutput(enc, c, p, e) ==
    CASE enc = "transaction_version_v4" ->
           SignaturePayload_using_encoded_transaction_version_v4(c, p, e)
      [] enc = "extrinsic_version_v4" ->
           SignaturePayload_using_encoded_extrinsic_version_v4(c, p, e)
      [] OTHER -> SignedPayload_using_encoded(c, p, e)

\* the (Address, Signature, Payload) tuple of a signed transaction
SignatureTuple_encode(s) ==
    AccountId_using_encoded(s.address) \o MultiSignature_using_encoded(s.sig)
        \o Payload_encode(s.payload)

SignatureTuple_decode(input) ==
    LET a == AccountId_decode(input)
    IN  IF ~a.ok THEN DecodeErr
        ELSE LET g == MultiSignature_decode(a.rest)
             IN  IF ~g.ok THEN DecodeErr
                 ELSE LET p == Payload_decode(g.rest)
                      IN  IF ~p.ok THEN DecodeErr
                          ELSE DecodeOk([address |-> a.v[1], sig |-> g.v[1],
                                         payload |-> p.v[1]], p.rest)

\* Transaction::new_unsigned
new_unsigned(c) == [signature |-> None, call |-> c]

\* the body Transaction::using_encoded collects in enc
TransactionBody(tx) ==
    (IF tx.signature # None
     THEN <<132>> \o SignatureTuple_encode(tx.signature[1])
     ELSE <<4>>) \o Call_encode(tx.call)

\* faulty variant of Transaction_using_encoded: the body without its length prefix
Transaction_using_encoded_NoPrefix(tx) == TransactionBody(tx)

\* Encode for Transaction: enc.encode() is the Vec<u8> encoding of the body
Transaction_using_encoded(tx) ==
    LET enc == TransactionBody(tx)
    IN  Compact_encode(Len(enc)) \o enc

\* faulty variant of Transaction_decode: every version byte other than 132
\* is read as the unsigned variant
Transaction_decode_AnyVersion(type, input) ==
    LET len == Compact_decode(input)
    IN  IF ~len.ok \/ len.rest = <<>> THEN DecodeErr
        ELSE LET version == Head(len.rest)
                 after == Tail(len.rest)
                 sig == IF version = 132 THEN SignatureTuple_decode(after)
                        ELSE DecodeOk(None, after)
             IN  IF ~sig.ok THEN DecodeErr
                 ELSE LET c == Call_decode(type, sig.rest)
                      IN  IF ~c.ok THEN DecodeErr
                          ELSE DecodeOk(
                                 [signature |-> IF version = 132 THEN Some(sig.v[1])
                                                ELSE None,
                                  call |-> c.v[1]], c.rest)

\* Decode for Transaction at call type `type`
Transaction_decode(type, input) ==
    LET len == Compact_decode(input)
    IN  IF ~len.ok \/ len.rest = <<>> THEN DecodeErr
        ELSE LET version == Head(len.rest)
                 after == Tail(len.rest)
                 sig == IF version = 132 THEN SignatureTuple_decode(after)
                        ELSE DecodeOk(None, after)
             IN  IF version \notin {132, 4} \/ ~sig.ok THEN DecodeErr
                 ELSE LET c == Call_decode(type, sig.rest)
                      IN  IF ~c.ok THEN DecodeErr
                          ELSE DecodeOk(
                                 [signature |-> IF version = 132 THEN Some(sig.v[1])
                                                ELSE None,
                                  call |-> c.v[1]], c.rest)

-----------------------------------------------------------------------------
(* SignedTransactionBuilder.                                               *)

\* Default for SignedTransactionBuilder
NewBuilder ==
    [signer |-> None, call |-> None, nonce |-> None, payment |-> None,
     network |-> None, mortality |-> Immortal, spec_version |-> None]

\* faulty variant of FirstMissing: network is checked before payment
FirstMissing_Reordered(b) ==
    CASE b.signer = None -> "signer"
      [] b.call = None -> "call"
      [] b.nonce = None -> "nonce"
      [] b.network = None -> "network"
      [] b.payment = None -> "payment"
      [] OTHER -> ""

\* the ok_or(...)? chain over the mandatory fields: the first absent one
FirstMissing(b) ==
    CASE b.signer = None -> "signer"
      [] b.call = None -> "call"
      [] b.nonce = None -> "nonce"
      [] b.payment = None -> "payment"
      [] b.network = None -> "network"
      [] OTHER -> ""

\* "Determine spec_version": None stands for the ok_or error
ResolveSpecVersion(network, spec_version) ==
    CASE network = "Kusama" ->
           IF spec_version # None THEN spec_version ELSE Some(kusama_SPEC_VERSION)
      [] network = "Polkadot" ->
           IF spec_version # None THEN spec_version ELSE Some(polkadot_SPEC_VERSION)
      [] OTHER -> spec_version

\* faulty variant of ResolveBirth: a missing birth hash falls back to the genesis hash
ResolveBirth_GenesisDefault(mortality, network) ==
    IF mortality.tag = "Immortal" \/ mortality.birth = None
    THEN Some(Network_genesis(network))
    ELSE mortality.birth

\* faulty variant of ResolveBirth: the birth hash is the genesis hash for every
\* mortality that has one
ResolveBirth_AlwaysGenesis(mortality, network) ==
    IF mortality.tag = "Mortal" /\ mortality.birth = None THEN None
    ELSE Some(Network_genesis(network))

\* "Set mortality starting period": None stands for the ok_or error
ResolveBirth(mortality, network) ==
    IF mortality.tag = "Immortal" THEN Some(Network_genesis(network))
    ELSE mortality.birth

BuildErr(name) == [status |-> "Err", err |-> name, tx |-> None, signed |-> <<>>]

\* faulty variant of SignAndAssemble: the transaction carries a payload rebuilt with
\* the default mortality instead of the payload that was signed
SignAndAssemble_RebuiltPayload(f, fill) ==
    LET payload == [mortality |-> f.mortality, nonce |-> f.nonce,
                    payment |-> f.payment]
        extra == [spec_version |-> f.spec_version, tx_version |-> TX_VERSION,
                  genesis |-> Network_genesis(f.network), birth |-> f.birth]
        c == f.call
        message == SignaturePayload_using_encoded(c, payload, extra)
        sig == Sign(f.signer, message, fill)
        op == [scheme |-> f.signer.scheme, call |-> c, payload |-> payload,
               extra |-> extra, sig_bytes |-> SigBytes(c, payload, extra),
               message |-> message]
        addr == AccountId_from_MultiKeyPair(f.signer)
    IN  IF addr = None
        THEN [status |-> "Panic", err |-> "not implemented", tx |-> None,
              signed |-> <<op>>]
        ELSE [status |-> "Ok", err |-> "",
              tx |-> Some([signature |->
                             Some([address |-> addr[1], sig |-> sig,
                                   payload |-> [payload EXCEPT
                                                  !.mortality = Immortal]]),
                           call |-> c]),
              signed |-> <<op>>]

\* the part of build() after the field checks: payload, extra, signature,
\* address and the final transaction.  f holds the resolved fields
\* [signer, call, nonce, payment, network, mortality, spec_version, birth].
SignAndAssemble(f, fill) ==
    LET payload == [mortality |-> f.mortality, nonce |-> f.nonce,
                    payment |-> f.payment]
        extra == [spec_version |-> f.spec_version, tx_version |-> TX_VERSION,
                  genesis |-> Network_genesis(f.network), birth |-> f.birth]
        c == f.call
        message == SignaturePayload_using_encoded(c, payload, extra)
        sig == Sign(f.signer, message, fill)
        op == [scheme |-> f.signer.scheme, call |-> c, payload |-> payload,
               extra |-> extra, sig_bytes |-> SigBytes(c, payload, extra),
               message |-> message]
        addr == AccountId_from_MultiKeyPair(f.signer)
    IN  IF addr = None
        THEN [status |-> "Panic", err |-> "not implemented", tx |-> None,
              signed |-> <<op>>]
        ELSE [status |-> "Ok", err |-> "",
              tx |-> Some([signature |-> Some([address |-> addr[1], sig |-> sig,
                                                payload |-> payload]),
                           call |-> c]),
              signed |-> <<op>>]

\* SignedTransactionBuilder::build; fill is the signer's choice of signature
SignedTransactionBuilder_build(b, fill) ==
    IF FirstMissing(b) # "" THEN BuildErr(FirstMissing(b))
    ELSE LET network == b.network[1]
             spec_version == ResolveSpecVersion(network, b.spec_version)
             birth == ResolveBirth(b.mortality, network)
         IN  IF spec_version = None THEN BuildErr("spec_version")
             ELSE IF birth = None THEN BuildErr("no birth block in Mortality")
             ELSE SignAndAssemble(
                    [signer |-> b.signer[1], call |-> b.call[1],
                     nonce |-> b.nonce[1], payment |-> b.payment[1],
                     network |-> network, mortality |-> b.mortality,
                     spec_version |-> spec_version[1], birth |-> birth[1]], fill)

-----------------------------------------------------------------------------
(* Inputs offered to the builder.                                          *)

Signers == {KeyPair(s) : s \in Schemes}

BirthHash == Fill(32, 9)

Calls ==
    { SomeExtrinsic(10, <<115, 111, 109, 101>>, <<20, 30, 40>>),
      \* with a string of 162 bytes the signature payload of an immortal
      \* transaction is 256 bytes at nonce 0 and 257 bytes at nonce 64
      SomeExtrinsic(10, Fill(162, 115), <<20, 30, 40>>),
      TransferKeepAlive(Fill(32, 0), <<1000, 1000>>),
      DerivedTransfer(Fill(32, 0), <<1000, 1000>>),
      NoArgExtrinsic(0, 2) }

Nonces == {64 * i : i \in 0..MaxNonceStep}

\* Balance values handed to payment(): 10 and 100000 base units
Payments == { <<10, 1000>>, <<100000, 1000>> }

\* Mortal is a public tuple variant: any period and phase can be handed in
Mortalities ==
    { Immortal, Mortal(64, 5, None), Mortal(64, 5, Some(BirthHash)),
      Mortal(8192, 6, Some(BirthHash)), Mortal(12, 20, Some(BirthHash)) }

SpecVersions == 9080..(9080 + MaxSpecStep)

NoResult == [op |-> "", status |-> "None", err |-> "", tx |-> None]
NoDecode == [status |-> "None", tx |-> None]

-----------------------------------------------------------------------------
(* The metadata collector: nodes, JSON-RPC answers and the file system.    *)
(*                                                                         *)
(* A block hash is modelled by the number of the block it names on the     *)
(* node that answered.  A path is <<directory, prefix, spec_name,          *)
(* spec_version>>; the content of a file is the sequence of chunks written *)
(* to it since it was last created (truncated), so an empty file is <<>>.  *)

\* the chains of the nodes gain at most MaxGrowth blocks in all
MaxGrowth == 1
\* run() is started at most MaxRuns times
MaxRuns == 2

BLOCK_HASH_LIMIT == 30
TIMEOUT == 10

Nodes == {"kusama", "polkadot", "testnet"}

\* specName reported by the runtime of block n of a node; the runtime of the
\* test network is renamed at block 1
Node_spec_name(node, n) ==
    IF node = "testnet" /\ n >= 1 THEN "testnet2" ELSE node

\* specVersion reported by the runtime of block n of a node
Node_spec_version(node, n) ==
    CASE node = "polkadot" -> IF n < 1 THEN 0 ELSE 1
      [] node = "kusama" -> IF n < 1 THEN 1020 ELSE IF n < 31 THEN 1021 ELSE 1022
      [] OTHER -> 7

\* state_getRuntimeVersion at the state of block n
RuntimeVersion(node, n) ==
    [spec_name |-> Node_spec_name(node, n),
     spec_version |-> Node_spec_version(node, n)]

\* state_getMetadata at the state of block n: the metadata of that runtime
MetadataHex(node, n) ==
    <<"meta", Node_spec_name(node, n), Node_spec_version(node, n)>>

\* chain_getBlockHash for a list of block numbers: one hash per number; a
\* number above the node's head is answered with null, which does not
\* deserialize as Vec<String>
BlockHashes(h, numbers) ==
    IF \E i \in 1..Len(numbers) : numbers[i] > h
    THEN [ok |-> FALSE, v |-> <<>>]
    ELSE [ok |-> TRUE, v |-> numbers]

CollectorConfig(chain_name, endpoint, directory) ==
    [chain_name |-> chain_name, endpoint |-> endpoint, directory |-> directory]

LatestInfo(spec_version, last_block) ==
    [spec_version |-> spec_version, last_block |-> last_block]

\* faulty variant of BatchRange: starts after the next block to process
BatchRange_SkipFirst(last_block, latest) ==
    LET from == last_block + 1
        to == Min(latest, last_block + BLOCK_HASH_LIMIT)
    IN  [i \in 1..Max(to - from + 1, 0) |-> from + i - 1]

\* the block numbers from ..= to of one chain_getBlockHash request
BatchRange(last_block, latest) ==
    LET from == last_block
        to == Min(latest, last_block + BLOCK_HASH_LIMIT)
    IN  [i \in 1..Max(to - from + 1, 0) |-> from + i - 1]

\* faulty variant of AfterFetch: the chain name is not compared
AfterFetch_NoNameCheck(chain_name, version, state) ==
    IF version.spec_version # state.spec_version THEN "create_version"
    ELSE "create_state"

\* what the loop body does with a fetched runtime version: fail on a foreign
\* spec_name, save the sidecar files of a new spec_version, or go on to
\* track_latest_state
AfterFetch(chain_name, version, state) ==
    IF version.spec_name # chain_name THEN "wrong_chain"
    ELSE IF version.spec_version # state.spec_version THEN "create_version"
    ELSE "create_state"

\* faulty variant of CaughtUp: sleeps with one block left to process
CaughtUp_OneEarly(latest, last_block) == latest <= last_block

\* the loop sleeps and re-queries the head
CaughtUp(latest, last_block) == latest < last_block

\* Filesystem::path without the trailing separator
Filesystem_path(cfg) ==
    IF cfg.directory = None THEN "" ELSE cfg.directory[1]

Filesystem_STATE == ".collection_state"

StatePath(cfg) == <<Filesystem_path(cfg), Filesystem_STATE, "", 0>>
VersionPath(cfg, version) ==
    <<Filesystem_path(cfg), "version", version.spec_name, version.spec_version>>
MetadataPath(cfg, version) ==
    <<Filesystem_path(cfg), "metadata", version.spec_name, version.spec_version>>

EmptyFs == [p \in {} |-> <<>>]

\* faulty variant of File_create: an existing file is opened without truncation
File_create_NoTruncate(fs, p) ==
    [q \in (DOMAIN fs) \cup {p} |-> IF q \in DOMAIN fs THEN fs[q] ELSE <<>>]

\* File::create: O_CREAT | O_TRUNC
File_create(fs, p) ==
    [q \in (DOMAIN fs) \cup {p} |-> IF q = p THEN <<>> ELSE fs[q]]

\* write_all followed by sync_all on a file that was just created
File_write_all(fs, p, data) == [fs EXCEPT ![p] = Append(@, data)]

\* Filesystem::read_last_state: None without a state file, an error when the
\* content is not exactly one JSON document
read_last_state(fs, cfg) ==
    LET p == StatePath(cfg)
    IN  IF p \notin DOMAIN fs THEN [ok |-> TRUE, v |-> None]
        ELSE IF Len(fs[p]) # 1 THEN [ok |-> FALSE, v |-> None]
        ELSE [ok |-> TRUE, v |-> Some(fs[p][1])]

\* the locals of a task that has not started its loop
NoVersion == [spec_name |-> "", spec_version |-> 0]
NewTask ==
    [pc |-> "latest_block", latest |-> 0, state |-> LatestInfo(0, 0),
     range |-> <<>>, header_hashes |-> <<>>, hash |-> None,
     version |-> NoVersion, metadata |-> <<>>, timer |-> 0, err |-> ""]

\* configurations and chains the collector is run with
Scenarios ==
    { [collectors |-> <<CollectorConfig("kusama", "kusama", None)>>,
       head |-> [n \in Nodes |-> IF n = "kusama" THEN 31 ELSE 0]],
      [collectors |-> <<CollectorConfig("kusama", "kusama", Some("data"))>>,
       head |-> [n \in Nodes |-> IF n = "kusama" THEN 1 ELSE 0]],
      [collectors |-> <<CollectorConfig("polkadot", "polkadot", Some("data"))>>,
       head |-> [n \in Nodes |-> IF n = "polkadot" THEN 1 ELSE 0]],
      [collectors |-> <<CollectorConfig("kusama", "polkadot", None)>>,
       head |-> [n \in Nodes |-> 0]],
      [collectors |-> <<CollectorConfig("testnet", "testnet", None)>>,
       head |-> [n \in Nodes |-> IF n = "testnet" THEN 1 ELSE 0]],
      [collectors |-> <<CollectorConfig("kusama", "kusama", None),
                        CollectorConfig("polkadot", "polkadot", None)>>,
       head |-> [n \in Nodes |-> 0]],
      [collectors |-> <<CollectorConfig("kusama", "kusama", Some("k")),
                        CollectorConfig("polkadot", "polkadot", Some("p"))>>,
       head |-> [n \in Nodes |-> 0]] }

NoStop == [caught_up |-> FALSE, files |-> EmptyFs, head |-> [n \in Nodes |-> 0]]

\* no collector is configured and run() has not been started
NoCollector ==
    /\ config = <<>>
    /\ chain = [head |-> [n \in Nodes |-> 0], grown |-> 0]
    /\ runs = 0
    /\ run_pc = "recv"
    /\ chan = 0
    /\ collector = <<>>
    /\ files = EmptyFs
    /\ touched = <<>>
    /\ at_stop = NoStop

\* no library operation has been called
NoCall ==
    /\ called = ""
    /\ given = <<>>
    /\ returned = <<>>

-----------------------------------------------------------------------------
(* The state machine: setters in any order, then build or new_unsigned,    *)
(* then encode, then decode at the same type.                              *)

Init ==
    /\ builder = NewBuilder
    /\ pc = "builder"
    /\ result = NoResult
    /\ signed = <<>>
    /\ encoded = <<>>
    /\ decoded = NoDecode
    /\ handed = [encoder |-> "", bytes |-> <<>>]
    /\ NoCollector
    /\ NoCall

Signer ==
    /\ pc = "builder"
    /\ \E s \in Signers : builder' = [builder EXCEPT !.signer = Some(s)]
    /\ UNCHANGED <<pc, result, signed, encoded, decoded, handed>>
    /\ UNCHANGED <<cvars, lvars>>

Call ==
    /\ pc = "builder"
    /\ \E c \in Calls : builder' = [builder EXCEPT !.call = Some(c)]
    /\ UNCHANGED <<pc, result, signed, encoded, decoded, handed>>
    /\ UNCHANGED <<cvars, lvars>>

Nonce ==
    /\ pc = "builder"
    /\ \E n \in Nonces : builder' = [builder EXCEPT !.nonce = Some(n)]
    /\ UNCHANGED <<pc, result, signed, encoded, decoded, handed>>
    /\ UNCHANGED <<cvars, lvars>>

Payment ==
    /\ pc = "builder"
    /\ \E p \in Payments :
         builder' = [builder EXCEPT !.payment = Some(Balance_as_base_unit(p))]
    /\ UNCHANGED <<pc, result, signed, encoded, decoded, handed>>
    /\ UNCHANGED <<cvars, lvars>>

Network ==
    /\ pc = "builder"
    /\ \E n \in Networks : builder' = [builder EXCEPT !.network = Some(n)]
    /\ UNCHANGED <<pc, result, signed, encoded, decoded, handed>>
    /\ UNCHANGED <<cvars, lvars>>

Mortality ==
    /\ pc = "builder"
    /\ \E m \in Mortalities : builder' = [builder EXCEPT !.mortality = m]
    /\ UNCHANGED <<pc, result, signed, encoded, decoded, handed>>
    /\ UNCHANGED <<cvars, lvars>>

SpecVersion ==
    /\ pc = "builder"
    /\ \E v \in SpecVersions : builder' = [builder EXCEPT !.spec_version = Some(v)]
    /\ UNCHANGED <<pc, result, signed, encoded, decoded, handed>>
    /\ UNCHANGED <<cvars, lvars>>

Build ==
    /\ pc = "builder"
    /\ \E fill \in SigFills :
         LET r == SignedTransactionBuilder_build(builder, fill)
         IN  /\ result' = [op |-> "build", status |-> r.status, err |-> r.err,
                           tx |-> r.tx]
             /\ signed' = signed \o r.signed
    /\ pc' = "built"
    /\ UNCHANGED <<builder, encoded, decoded, handed>>
    /\ UNCHANGED <<cvars, lvars>>

NewUnsigned ==
    /\ pc = "builder"
    /\ builder = NewBuilder
    /\ \E c \in Calls :
         result' = [op |-> "new_unsigned", status |-> "Ok", err |-> "",
                    tx |-> Some(new_unsigned(c))]
    /\ pc' = "built"
    /\ UNCHANGED <<builder, signed, encoded, decoded, handed>>
    /\ UNCHANGED <<cvars, lvars>>

Encode ==
    /\ pc = "built"
    /\ result.status = "Ok"
    /\ encoded' = Transaction_using_encoded(result.tx[1])
    /\ pc' = "encoded"
    /\ UNCHANGED <<builder, result, signed, decoded, handed>>
    /\ UNCHANGED <<cvars, lvars>>

Decode ==
    /\ pc = "encoded"
    /\ LET d == Transaction_decode(CallType(result.tx[1].call), encoded)
       IN  decoded' = IF d.ok THEN [status |-> "Ok", tx |-> Some(d.v[1])]
                      ELSE [status |-> "Err", tx |-> None]
    /\ pc' = "decoded"
    /\ UNCHANGED <<builder, result, signed, encoded, handed>>
    /\ UNCHANGED <<cvars, lvars>>

\* the signature payload of the last signing operation run through one of the
\* other SignaturePayload encoders of the repository
DraftEncode ==
    /\ pc = "built"
    /\ signed # <<>>
    /\ \E enc \in Encoders :
         LET op == signed[Len(signed)]
         IN  handed' = [encoder |-> enc,
                        bytes |-> EncoderOutput(enc, op.call, op.payload, op.extra)]
    /\ pc' = "drafted"
    /\ UNCHANGED <<builder, result, signed, encoded, decoded>>
    /\ UNCHANGED <<cvars, lvars>>

Next ==
    \/ Signer
    \/ Call
    \/ Nonce
    \/ Payment
    \/ Network
    \/ Mortality
    \/ SpecVersion
    \/ Build
    \/ NewUnsigned
    \/ Encode
    \/ Decode
    \/ DraftEncode

Spec == Init /\ [][Next]_vars

-----------------------------------------------------------------------------
(* The collector's state machine: run() spawns one do_run task per         *)
(* configured collector and waits on the shutdown channel; every await and *)
(* every file operation of a task is one step.  A JSON-RPC call or a file  *)
(* operation may fail; the chain of a node may grow; the process may be    *)
(* stopped at any point and run() started again on the same file system.   *)

CollectorInit ==
    /\ \E sc \in Scenarios :
         /\ config = sc.collectors
         /\ chain = [head |-> sc.head, grown |-> 0]
         /\ collector = [t \in 1..Len(sc.collectors) |-> NewTask]
         /\ touched = [t \in 1..Len(sc.collectors) |-> {}]
    /\ runs = 1
    /\ run_pc = "recv"
    /\ chan = 0
    /\ files = EmptyFs
    /\ at_stop = NoStop
    /\ builder = NewBuilder
    /\ pc = "builder"
    /\ result = NoResult
    /\ signed = <<>>
    /\ encoded = <<>>
    /\ decoded = NoDecode
    /\ handed = [encoder |-> "", bytes |-> <<>>]
    /\ NoCall

\* local(config) returns Err(e) and its locals are dropped: do_run goes on to
\* send the shutdown signal
Failed(e) == [NewTask EXCEPT !.pc = "send", !.err = e]
Fail(t, e) == collector' = [collector EXCEPT ![t] = Failed(e)]

Touch(t, p) == touched' = [touched EXCEPT ![t] = @ \cup {p}]

\* latest_block(&url) before the loop
LatestBlock(t) ==
    /\ collector[t].pc = "latest_block"
    /\ \E ok \in BOOLEAN :
         IF ok
         THEN collector' = [collector EXCEPT
                  ![t].latest = chain.head[config[t].endpoint],
                  ![t].pc = "read_last_state"]
         ELSE Fail(t, "rpc")
    /\ UNCHANGED <<config, chain, runs, run_pc, chan, files, touched, at_stop>>
    /\ UNCHANGED <<bvars, lvars>>

\* fs.read_last_state()?.unwrap_or(LatestInfo { 0, 0 })
ReadLastState(t) ==
    /\ collector[t].pc = "read_last_state"
    /\ LET r == read_last_state(files, config[t])
       IN  IF r.ok
           THEN collector' = [collector EXCEPT
                    ![t].state = IF r.v = None THEN LatestInfo(0, 0) ELSE r.v[1],
                    ![t].pc = "loop"]
           ELSE Fail(t, "read_last_state")
    /\ Touch(t, StatePath(config[t]))
    /\ UNCHANGED <<config, chain, runs, run_pc, chan, files, at_stop>>
    /\ UNCHANGED <<bvars, lvars>>

\* top of the loop: one chain_getBlockHash request for the range
RequestHashes(t) ==
    /\ collector[t].pc = "loop"
    /\ LET range == BatchRange(collector[t].state.last_block, collector[t].latest)
           r == BlockHashes(chain.head[config[t].endpoint], range)
       IN  \E ok \in BOOLEAN :
             IF ok /\ r.ok
             THEN collector' = [collector EXCEPT
                      ![t].range = range,
                      ![t].header_hashes = r.v,
                      ![t].pc = "for"]
             ELSE Fail(t, "rpc")
    /\ UNCHANGED <<config, chain, runs, run_pc, chan, files, touched, at_stop>>
    /\ UNCHANGED <<bvars, lvars>>

\* for hash in header_hashes: state_getRuntimeVersion and state_getMetadata
FetchRuntime(t) ==
    /\ collector[t].pc = "for"
    /\ collector[t].header_hashes # <<>>
    /\ LET hash == Head(collector[t].header_hashes)
           node == config[t].endpoint
       IN  \E ok \in BOOLEAN :
             IF ok
             THEN collector' = [collector EXCEPT
                      ![t].hash = Some(hash),
                      ![t].header_hashes = Tail(@),
                      ![t].version = RuntimeVersion(node, hash),
                      ![t].metadata = MetadataHex(node, hash),
                      ![t].pc = "fetched"]
             ELSE Fail(t, "rpc")
    /\ UNCHANGED <<config, chain, runs, run_pc, chan, files, touched, at_stop>>
    /\ UNCHANGED <<bvars, lvars>>

\* the spec_name and spec_version comparisons of the loop body
CheckVersion(t) ==
    /\ collector[t].pc = "fetched"
    /\ LET next == AfterFetch(config[t].chain_name, collector[t].version,
                              collector[t].state)
       IN  IF next = "wrong_chain" THEN Fail(t, "wrong_chain")
           ELSE collector' = [collector EXCEPT ![t].pc = next]
    /\ UNCHANGED <<config, chain, runs, run_pc, chan, files, touched, at_stop>>
    /\ UNCHANGED <<bvars, lvars>>

\* File::create at path p, then on to pc next
CreateStep(t, p, next) ==
    /\ \E ok \in BOOLEAN :
         IF ok
         THEN /\ files' = File_create(files, p)
              /\ collector' = [collector EXCEPT ![t].pc = next]
         ELSE /\ files' = files
              /\ Fail(t, "io")
    /\ Touch(t, p)
    /\ UNCHANGED <<config, chain, runs, run_pc, chan, at_stop>>
    /\ UNCHANGED <<bvars, lvars>>

\* save_runtime_metadata: File::create of the version file
CreateVersion(t) ==
    /\ collector[t].pc = "create_version"
    /\ CreateStep(t, VersionPath(config[t], collector[t].version), "write_version")

\* save_runtime_metadata: write_all and sync_all of the version file
WriteVersion(t) ==
    /\ collector[t].pc = "write_version"
    /\ \E ok \in BOOLEAN :
         IF ok
         THEN /\ files' = File_write_all(files,
                              VersionPath(config[t], collector[t].version),
                              collector[t].version)
              /\ collector' = [collector EXCEPT ![t].pc = "create_metadata"]
         ELSE /\ files' = files
              /\ Fail(t, "io")
    /\ UNCHANGED <<config, chain, runs, run_pc, chan, touched, at_stop>>
    /\ UNCHANGED <<bvars, lvars>>

\* save_runtime_metadata: File::create of the metadata file
CreateMetadata(t) ==
    /\ collector[t].pc = "create_metadata"
    /\ CreateStep(t, MetadataPath(config[t], collector[t].version), "write_metadata")

\* save_runtime_metadata: write_all and sync_all of the metadata file
WriteMetadata(t) ==
    /\ collector[t].pc = "write_metadata"
    /\ \E ok \in BOOLEAN :
         IF ok
         THEN /\ files' = File_write_all(files,
                              MetadataPath(config[t], collector[t].version),
                              collector[t].metadata)
              /\ collector' = [collector EXCEPT ![t].pc = "create_state"]
         ELSE /\ files' = files
              /\ Fail(t, "io")
    /\ UNCHANGED <<config, chain, runs, run_pc, chan, touched, at_stop>>
    /\ UNCHANGED <<bvars, lvars>>

\* state.spec_version = version.spec_version; track_latest_state: File::create
CreateState(t) ==
    /\ collector[t].pc = "create_state"
    /\ \E ok \in BOOLEAN :
         IF ok
         THEN /\ files' = File_create(files, StatePath(config[t]))
              /\ collector' = [collector EXCEPT
                     ![t].state.spec_version = collector[t].version.spec_version,
                     ![t].pc = "write_state"]
         ELSE /\ files' = files
              /\ Fail(t, "io")
    /\ Touch(t, StatePath(config[t]))
    /\ UNCHANGED <<config, chain, runs, run_pc, chan, at_stop>>
    /\ UNCHANGED <<bvars, lvars>>

\* track_latest_state: write_all and sync_all; then state.last_block += 1
WriteState(t) ==
    /\ collector[t].pc = "write_state"
    /\ \E ok \in BOOLEAN :
         IF ok
         THEN /\ files' = File_write_all(files, StatePath(config[t]),
                                         collector[t].state)
              /\ collector' = [collector EXCEPT
                     ![t].state.last_block = @ + 1, ![t].pc = "for"]
         ELSE /\ files' = files
              /\ Fail(t, "io")
    /\ UNCHANGED <<config, chain, runs, run_pc, chan, touched, at_stop>>
    /\ UNCHANGED <<bvars, lvars>>

\* after the for loop: sleep when caught up, else straight to the next batch
EndOfBatch(t) ==
    /\ collector[t].pc = "for"
    /\ collector[t].header_hashes = <<>>
    /\ IF CaughtUp(collector[t].latest, collector[t].state.last_block)
       THEN collector' = [collector EXCEPT ![t].pc = "sleep", ![t].timer = TIMEOUT]
       ELSE collector' = [collector EXCEPT ![t].pc = "loop"]
    /\ UNCHANGED <<config, chain, runs, run_pc, chan, files, touched, at_stop>>
    /\ UNCHANGED <<bvars, lvars>>

\* the sleep has elapsed but the head is not fetched again
Requery_KeepLatest(t) ==
    /\ collector[t].pc = "sleep"
    /\ \E ok \in BOOLEAN :
         IF ok
         THEN collector' = [collector EXCEPT ![t].timer = 0, ![t].pc = "loop"]
         ELSE Fail(t, "rpc")
    /\ UNCHANGED <<config, chain, runs, run_pc, chan, files, touched, at_stop>>
    /\ UNCHANGED <<bvars, lvars>>

\* the sleep has elapsed: latest_block(&url) again
Requery(t) ==
    /\ collector[t].pc = "sleep"
    /\ \E ok \in BOOLEAN :
         IF ok
         THEN collector' = [collector EXCEPT
                  ![t].latest = chain.head[config[t].endpoint],
                  ![t].timer = 0,
                  ![t].pc = "loop"]
         ELSE Fail(t, "rpc")
    /\ UNCHANGED <<config, chain, runs, run_pc, chan, files, touched, at_stop>>
    /\ UNCHANGED <<bvars, lvars>>

\* tx.send(()).await.unwrap(): waits while the buffer is full, panics when
\* the receiver has been dropped
Send(t) ==
    /\ collector[t].pc = "send"
    /\ IF run_pc = "returned"
       THEN /\ collector' = [collector EXCEPT ![t].pc = "panicked", ![t].err = ""]
            /\ chan' = chan
       ELSE /\ chan < 1
            /\ chan' = chan + 1
            /\ collector' = [collector EXCEPT ![t].pc = "done", ![t].err = ""]
    /\ UNCHANGED <<config, chain, runs, run_pc, files, touched, at_stop>>
    /\ UNCHANGED <<bvars, lvars>>

\* run(): recv.recv().await returns the first message
RunRecv ==
    /\ run_pc = "recv"
    /\ chan > 0
    /\ chan' = chan - 1
    /\ run_pc' = "received"
    /\ UNCHANGED <<config, chain, runs, collector, files, touched, at_stop>>
    /\ UNCHANGED <<bvars, lvars>>

\* run() returns Err("service is shutting down unexpectedly"); the receiver
\* is dropped
RunReturn ==
    /\ run_pc = "received"
    /\ run_pc' = "returned"
    /\ UNCHANGED <<config, chain, runs, chan, collector, files, touched, at_stop>>
    /\ UNCHANGED <<bvars, lvars>>

\* the node of some collector imports a block
GrowChain ==
    /\ \E t \in DOMAIN config :
         LET n == config[t].endpoint
         IN  /\ chain.grown < MaxGrowth
             /\ chain' = [chain EXCEPT !.head[n] = @ + 1, !.grown = @ + 1]
    /\ UNCHANGED <<config, runs, run_pc, chan, collector, files, touched, at_stop>>
    /\ UNCHANGED <<bvars, lvars>>

\* every task sleeps with nothing left to process on its node
AllCaughtUp ==
    \A t \in DOMAIN collector :
        /\ collector[t].pc = "sleep"
        /\ collector[t].state.last_block = chain.head[config[t].endpoint] + 1

\* the process is stopped (or crashes) and run() is started again
Restart ==
    /\ runs >= 1
    /\ runs < MaxRuns
    /\ runs' = runs + 1
    /\ run_pc' = "recv"
    /\ chan' = 0
    /\ collector' = [t \in DOMAIN collector |-> NewTask]
    /\ at_stop' = IF AllCaughtUp
                  THEN [caught_up |-> TRUE, files |-> files,
                        head |-> chain.head]
                  ELSE NoStop
    /\ UNCHANGED <<config, chain, files, touched>>
    /\ UNCHANGED <<bvars, lvars>>

CollectorNext ==
    \/ \E t \in DOMAIN collector : LatestBlock(t)
    \/ \E t \in DOMAIN collector : ReadLastState(t)
    \/ \E t \in DOMAIN collector : RequestHashes(t)
    \/ \E t \in DOMAIN collector : FetchRuntime(t)
    \/ \E t \in DOMAIN collector : CheckVersion(t)
    \/ \E t \in DOMAIN collector : CreateVersion(t)
    \/ \E t \in DOMAIN collector : WriteVersion(t)
    \/ \E t \in DOMAIN collector : CreateMetadata(t)
    \/ \E t \in DOMAIN collector : WriteMetadata(t)
    \/ \E t \in DOMAIN collector : CreateState(t)
    \/ \E t \in DOMAIN collector : WriteState(t)
    \/ \E t \in DOMAIN collector : EndOfBatch(t)
    \/ \E t \in DOMAIN collector : Requery(t)
    \/ \E t \in DOMAIN collector : Send(t)
    \/ RunRecv
    \/ RunReturn
    \/ GrowChain
    \/ Restart

SpecCollector == CollectorInit /\ [][CollectorNext]_vars

-----------------------------------------------------------------------------
(* The library's pure operations, each applied to an input drawn from a    *)
(* bounded set, once: `called` names the operation, `given` is its         *)
(* argument and `returned` what it returned.                               *)

Bytes == 0..255

LibraryInit ==
    /\ builder = NewBuilder
    /\ pc = "builder"
    /\ result = NoResult
    /\ signed = <<>>
    /\ encoded = <<>>
    /\ decoded = NoDecode
    /\ handed = [encoder |-> "", bytes |-> <<>>]
    /\ NoCollector
    /\ NoCall

Return(op, arg, ret) ==
    /\ called' = op
    /\ given' = arg
    /\ returned' = ret
    /\ UNCHANGED <<bvars, cvars>>

\* Mortality::encode, and Mortality::decode of the bytes it produced
MortalityEncode ==
    /\ called = ""
    /\ \E m \in {Immortal} \cup
            {Mortal(Pow2(k), q * Max(Pow2(k) \div 4096, 1), b) :
                k \in 2..MaxPeriodLog, q \in 0..4095, b \in {None, Some(BirthHash)}} :
        /\ m.phase < m.period \/ m.tag = "Immortal"
        /\ LET bytes == Mortality_using_encoded(m)
           IN  Return("Mortality::encode", m,
                      [bytes |-> bytes, decoded |-> Mortality_decode(bytes)])

\* Mortality::decode of any two bytes
MortalityDecode ==
    /\ called = ""
    /\ \E first \in Bytes, second \in Bytes :
        Return("Mortality::decode", <<first, second>>,
               Mortality_decode(<<first, second>>))

\* the transactions whose encodings are offered to Transaction::decode: the
\* unsigned one and one signed by an Sr25519 key, for every call
SampleTransactions ==
    {new_unsigned(c) : c \in Calls} \cup
    {SignAndAssemble([signer |-> KeyPair("Sr25519"), call |-> c, nonce |-> 0,
                      payment |-> 10, network |-> "Polkadot",
                      mortality |-> Immortal, spec_version |-> 9080,
                      birth |-> Network_genesis("Polkadot")], 170).tx[1] :
        c \in Calls}

\* Transaction::decode of the encoding of a transaction in which the byte
\* after the compact length prefix was replaced by any byte
TransactionDecode ==
    /\ called = ""
    /\ \E tx \in SampleTransactions, version \in Bytes :
         LET enc == Transaction_using_encoded(tx)
             skip == Len(enc) - Len(TransactionBody(tx))
             bytes == [enc EXCEPT ![skip + 1] = version]
             type == CallType(tx.call)
         IN  Return("Transaction::decode", [type |-> type, bytes |-> bytes],
                    Transaction_decode(type, bytes))

\* MetadataV13, reduced to what the extrinsic lookup reads: modules is a
\* sequence of [name, calls], calls an Option of a sequence of
\* [name, arguments]; module_id and dispatch_id count from 0.

\* FunctionMetadata::to_extrinsic_info
to_extrinsic_info(func, module_id, dispatch_id, module_name) ==
    [module_id |-> module_id, dispatch_id |-> dispatch_id,
     module_name |-> module_name, extrinsic_name |-> func.name,
     args |-> func.arguments]

RECURSIVE flatten(_)
flatten(lists) ==
    IF lists = <<>> THEN <<>> ELSE Head(lists) \o flatten(Tail(lists))

\* MetadataV13::modules_extrinsics
modules_extrinsics(meta) ==
    flatten([i \in 1..Len(meta.modules) |->
        LET mod_meta == meta.modules[i]
        IN  IF mod_meta.calls = None THEN <<>>
            ELSE [j \in 1..Len(mod_meta.calls[1]) |->
                    to_extrinsic_info(mod_meta.calls[1][j], i - 1, j - 1,
                                      mod_meta.name)]])

\* Iterator::find over an enumerated list: the first position whose name is
\* `name`, 0 when there is none
find(list, name) ==
    LET hits == {i \in 1..Len(list) : list[i].name = name}
    IN  IF hits = {} THEN 0 ELSE CHOOSE i \in hits : \A k \in hits : i <= k

\* faulty variant of find_module_extrinsic: module_id counts the modules that
\* have calls only
find_module_extrinsic_SkipEmpty(meta, method, extrinsic) ==
    LET i == find(meta.modules, method)
    IN  IF i = 0 \/ meta.modules[i].calls = None THEN None
        ELSE LET funcs_meta == meta.modules[i].calls[1]
                 j == find(funcs_meta, extrinsic)
                 id == Cardinality({k \in 1..(i - 1) : meta.modules[k].calls # None})
             IN  IF j = 0 THEN None
                 ELSE Some(to_extrinsic_info(funcs_meta[j], id, j - 1,
                                             meta.modules[i].name))

\* MetadataV13::find_module_extrinsic
find_module_extrinsic(meta, method, extrinsic) ==
    LET i == find(meta.modules, method)
    IN  IF i = 0 \/ meta.modules[i].calls = None THEN None
        ELSE LET funcs_meta == meta.modules[i].calls[1]
                 j == find(funcs_meta, extrinsic)
             IN  IF j = 0 THEN None
                 ELSE Some(to_extrinsic_info(funcs_meta[j], i - 1, j - 1,
                                             meta.modules[i].name))

ModuleNames == {"System", "Balances"}
FunctionNames == {"remark", "transfer"}

FunctionMetadata(name) ==
    [name |-> name,
     arguments |-> IF name = "transfer" THEN <<"dest", "value">> ELSE <<"_remark">>]

\* the call lists of a module: none, empty, or up to two functions
CallLists ==
    {None, Some(<<>>)} \cup
    {Some(<<FunctionMetadata(f)>>) : f \in FunctionNames} \cup
    {Some(<<FunctionMetadata(f), FunctionMetadata(g)>>) :
        f \in FunctionNames, g \in FunctionNames}

ModuleMetadata == [name : ModuleNames, calls : CallLists]

Metadatas ==
    UNION {[1..n -> ModuleMetadata] : n \in 0..MaxModules}

\* find_module_extrinsic and modules_extrinsics on the same metadata
FindModuleExtrinsic ==
    /\ called = ""
    /\ \E modules \in Metadatas :
       \E method \in ModuleNames \cup {"Staking"} :
       \E extrinsic \in FunctionNames \cup {"bond"} :
         LET meta == [modules |-> modules]
         IN  Return("find_module_extrinsic",
                    [metadata |-> meta, method |-> method,
                     extrinsic |-> extrinsic],
                    [found |-> find_module_extrinsic(meta, method, extrinsic),
                     all |-> modules_extrinsics(meta)])

\* Base58 (crate base58).  A string is the sequence of the positions of its
\* characters in the Base58 alphabet, 0 for '1' up to 57 for 'z'; 58 stands
\* for a character that is not in the alphabet.

RECURSIVE LeadingZeros(_)
LeadingZeros(s) ==
    IF s = <<>> \/ Head(s) # 0 THEN 0 ELSE 1 + LeadingZeros(Tail(s))

\* long division of a big-endian byte string by 58: [q, r]
RECURSIVE DivMod58(_, _)
DivMod58(bytes, carry) ==
    IF bytes = <<>> THEN [q |-> <<>>, r |-> carry]
    ELSE LET cur == carry * 256 + Head(bytes)
             rest == DivMod58(Tail(bytes), cur % 58)
         IN  [q |-> <<cur \div 58>> \o rest.q, r |-> rest.r]

RECURSIVE Base58Digits(_)
Base58Digits(bytes) ==
    IF bytes = <<>> THEN <<>>
    ELSE LET d == DivMod58(bytes, 0)
         IN  Base58Digits(Drop(d.q, LeadingZeros(d.q))) \o <<d.r>>

\* ToBase58::to_base58: one '1' per leading zero byte, then the digits
to_base58(bytes) ==
    LET z == LeadingZeros(bytes)
    IN  Fill(z, 0) \o Base58Digits(Drop(bytes, z))

\* a big-endian byte string times 58 plus carry
RECURSIVE MulAdd58(_, _)
MulAdd58(bytes, carry) ==
    IF bytes = <<>> THEN (IF carry = 0 THEN <<>> ELSE <<carry>>)
    ELSE LET cur == bytes[Len(bytes)] * 58 + carry
         IN  MulAdd58(Take(bytes, Len(bytes) - 1), cur \div 256) \o <<cur % 256>>

RECURSIVE Base58Value(_)
Base58Value(s) ==
    IF s = <<>> THEN <<>>
    ELSE MulAdd58(Base58Value(Take(s, Len(s) - 1)), s[Len(s)])

\* FromBase58::from_base58: Err on a character outside the alphabet
from_base58(s) ==
    IF \E i \in 1..Len(s) : s[i] > 57 THEN [ok |-> FALSE, v |-> <<>>]
    ELSE LET z == LeadingZeros(s)
         IN  [ok |-> TRUE, v |-> Fill(z, 0) \o Base58Value(Drop(s, z))]

\* SS58 (common/ss58format.rs).  An Ss58AddressFormat is [known, n]: one of
\* the identifiers of the registry when known, Custom(n) otherwise.

KnownFormats ==
    (0..26) \cup (28..38) \cup (41..48) \cup
    {63, 65, 66, 67, 69, 73, 77, 78, 98, 99, 101, 110, 172, 252, 1284, 1285,
     10041}

\* From<u16> for Ss58AddressFormat and From<Ss58AddressFormat> for u16
Ss58AddressFormat_from(x) == [known |-> x \in KnownFormats, n |-> x]
u16_from(format) == format.n

RECURSIVE WeightedSum(_, _)
WeightedSum(bs, w) ==
    IF bs = <<>> THEN 0
    ELSE ((w * Head(bs)) + WeightedSum(Tail(bs), w + 1)) % 65536

\* ss58hash: BLAKE2b-512 of "SS58PRE" || data; the stand-in is a 64-byte
\* string that is a function of every byte of the input and of its position
ss58hash(data) ==
    LET m == <<83, 83, 53, 56, 80, 82, 69>> \o data
        sum == WeightedSum(m, 1)
    IN  <<sum % 256, sum \div 256>> \o blake2b(m) \o Fill(30, 178)

\* faulty variant of Ss58Prefix: the two low bits of the identifier are lost
Ss58Prefix_NoLowBits(ident) ==
    IF ident <= 63 THEN <<ident>>
    ELSE <<((ident % 256) \div 4) + 64, ident \div 256>>

\* the prefix to_string_with_version writes for the 14-bit identifier
Ss58Prefix(ident) ==
    IF ident <= 63 THEN <<ident>>
    ELSE LET first == (ident % 256) \div 4
             second == (ident \div 256) + (((ident % 4) * 64) % 256)
         IN  <<first + 64, second>>

\* the bytes to_string_with_version collects in v: prefix, payload, checksum
Ss58Bytes(payload, version) ==
    LET ident == u16_from(version) % 16384
        v == Ss58Prefix(ident) \o payload
    IN  v \o Take(ss58hash(v), 2)

\* Ss58Codec::to_string_with_version
to_string_with_version(payload, version) == to_base58(Ss58Bytes(payload, version))

Ss58Panic == [status |-> "Panic", v |-> <<>>]

\* Ss58Codec::from_string_with_version for a type of body_len bytes
from_string_with_version(s, body_len) ==
    LET decoded58 == from_base58(s)
        data == decoded58.v
    IN  IF ~decoded58.ok \/ Len(data) < 2 \/ data[1] > 127 THEN Ss58Panic
        ELSE LET prefix_len == IF data[1] <= 63 THEN 1 ELSE 2
                 lower == ((data[1] * 4) % 256) + (data[2] \div 64)
                 upper == data[2] % 64
                 ident == IF data[1] <= 63 THEN data[1] ELSE lower + upper * 256
             IN  IF Len(data) # prefix_len + body_len + 2 THEN Ss58Panic
                 ELSE IF SubSeq(data, body_len + prefix_len + 1,
                                body_len + prefix_len + 2)
                           # Take(ss58hash(Take(data, body_len + prefix_len)), 2)
                 THEN Ss58Panic
                 ELSE [status |-> "Ok",
                       v |-> <<SubSeq(data, prefix_len + 1, body_len + prefix_len),
                               Ss58AddressFormat_from(ident)>>]

\* AccountId::from_ss58_address: the codec's result, unwrapped
AccountId_from_ss58_address(addr) ==
    LET r == from_string_with_version(addr, 32)
    IN  IF r.status = "Ok" THEN [status |-> "Ok", v |-> <<r.v[1]>>]
        ELSE Ss58Panic

\* MetadataVersion::into_inner on the variant of the given version number
into_inner(version) ==
    IF version = 13 THEN [status |-> "Ok", v |-> <<"MetadataV13">>]
    ELSE [status |-> "Panic", v |-> <<>>]

Ss58Payloads ==
    {Fill(32, 0), Fill(32, 255), [i \in 1..32 |-> (37 * i) % 256]}

\* network identifiers: both ends of the one-byte and of the two-byte range,
\* registered and unregistered ones
Ss58Idents ==
    {0, 1, 2, 3, 27, 42, 62, 63, 64, 65, 66, 67, 127, 128, 129, 255, 256, 257,
     1284, 1285, 4095, 4096, 4097, 8191, 8192, 10041, 16382, 16383}

\* the string of an address and what a caller can make of it: a changed
\* checksum, a missing and an added byte, a first byte above 127, a character
\* outside the alphabet, the empty string
Ss58Strings(payload, ident) ==
    LET data == Ss58Bytes(payload, Ss58AddressFormat_from(ident))
        n == Len(data)
        s == to_base58(data)
    IN  { s,
          to_base58([data EXCEPT ![n] = (@ + 1) % 256]),
          to_base58([data EXCEPT ![n - 1] = (@ + 255) % 256]),
          to_base58(Take(data, n - 1)),
          to_base58(data \o <<0>>),
          to_base58(<<128 + (data[1] % 128)>> \o Tail(data)),
          [s EXCEPT ![3] = 58],
          <<>> }

\* to_string_with_version, and from_string_with_version of its result
Ss58Encode ==
    /\ called = ""
    /\ \E payload \in Ss58Payloads, ident \in Ss58Idents :
         LET version == Ss58AddressFormat_from(ident)
             s == to_string_with_version(payload, version)
         IN  Return("to_string_with_version",
                    [payload |-> payload, ident |-> ident],
                    [string |-> s, bytes |-> Ss58Bytes(payload, version),
                     decoded |-> from_string_with_version(s, 32)])

\* from_string_with_version of a string the caller supplies
Ss58Decode ==
    /\ called = ""
    /\ \E payload \in Ss58Payloads, ident \in {2, 64, 16383} :
       \E s \in Ss58Strings(payload, ident) :
         Return("from_string_with_version", s, from_string_with_version(s, 32))

\* AccountId::from_ss58_address of a string the caller supplies
FromSs58Address ==
    /\ called = ""
    /\ \E payload \in Ss58Payloads, ident \in {2, 64, 16383} :
       \E s \in Ss58Strings(payload, ident) :
         Return("from_ss58_address", s, AccountId_from_ss58_address(s))

\* MetadataVersion::into_inner of metadata of any version
IntoInner ==
    /\ called = ""
    /\ \E version \in 0..13 :
         Return("into_inner", version, into_inner(version))

\* Balances and metrics (common/mod.rs).  A u128 is the sequence of its
\* decimal digits, most significant first and without leading zeros, <<>> for
\* 0; every base unit and every metric of the model is a power of ten, so a
\* multiplication appends zeros and a division drops digits.

DecPow10(k) == <<1>> \o Fill(k, 0)
Exp10(pow) == Len(pow) - 1

DecLess(a, b) ==
    \/ Len(a) < Len(b)
    \/ /\ Len(a) = Len(b)
       /\ \E i \in 1..Len(a) :
            a[i] < b[i] /\ \A j \in 1..(i - 1) : a[j] = b[j]

\* u128::MAX = 340282366920938463463374607431768211455
u128_MAX ==
    <<3, 4, 0, 2, 8, 2, 3, 6, 6, 9, 2, 0, 9, 3, 8, 4, 6, 3, 4, 6, 3, 3, 7, 4,
      6, 0, 7, 4, 3, 1, 7, 6, 8, 2, 1, 1, 4, 5, 5>>

\* a.saturating_mul(10^k)
saturating_mul(a, k) ==
    IF a = <<>> THEN <<>>
    ELSE IF DecLess(u128_MAX, a \o Fill(k, 0)) THEN u128_MAX
    ELSE a \o Fill(k, 0)

\* a / 10^k
div(a, k) == IF Len(a) <= k THEN <<>> ELSE Take(a, Len(a) - k)

\* enum Metric: the discriminant is sign * 10^exp
Metric(name) ==
    CASE name = "Peta" -> [sign |-> 1, exp |-> 15]
      [] name = "Tera" -> [sign |-> 1, exp |-> 12]
      [] name = "Giga" -> [sign |-> 1, exp |-> 9]
      [] name = "Mega" -> [sign |-> 1, exp |-> 6]
      [] name = "Kilo" -> [sign |-> 1, exp |-> 3]
      [] name = "One" -> [sign |-> 1, exp |-> 0]
      [] name = "Milli" -> [sign |-> -1, exp |-> 3]
      [] name = "Micro" -> [sign |-> -1, exp |-> 6]
      [] name = "Nano" -> [sign |-> -1, exp |-> 9]
      [] name = "Pico" -> [sign |-> -1, exp |-> 12]
      [] name = "Femto" -> [sign |-> -1, exp |-> 15]

Metrics ==
    {"Peta", "Tera", "Giga", "Mega", "Kilo", "One", "Milli", "Micro", "Nano",
     "Pico", "Femto"}

\* a > b for two metric discriminants (as i128)
MetricGreater(a, b) ==
    \/ a.sign > b.sign
    \/ a.sign = 1 /\ b.sign = 1 /\ a.exp > b.exp
    \/ a.sign = -1 /\ b.sign = -1 /\ a.exp < b.exp

\* fn convert_metrics: max and min are the absolute values of the two
\* discriminants, max / min = 10^(max - min) and max * min = 10^(max + min)
convert_metrics(prev_metric, new_metric, balance) ==
    LET max == Max(new_metric.exp, prev_metric.exp)
        min == Min(new_metric.exp, prev_metric.exp)
        converted == IF MetricGreater(new_metric, prev_metric)
                     THEN div(balance, max - min)
                     ELSE IF MetricGreater(prev_metric, new_metric)
                          THEN saturating_mul(balance, max + min)
                     ELSE balance
    IN  IF converted = <<>> THEN None ELSE Some(converted)

\* Currency::base_unit
Currency_base_unit(currency) ==
    CASE currency.tag \in {"Kusama", "Westend"} -> DecPow10(12)
      [] currency.tag = "Polkadot" -> DecPow10(10)
      [] OTHER -> currency.unit

\* BalanceWithUnit::balance_as_metric
balance_as_metric(unit, metric, balance) ==
    LET b == convert_metrics(Metric(metric), Metric("One"),
                             saturating_mul(balance, Exp10(unit)))
    IN  IF b = None THEN None ELSE Some(<<b[1], unit>>)

\* Balance::as_metric
Balance_as_metric(b, metric) ==
    convert_metrics(Metric("One"), Metric(metric), div(b[1], Exp10(b[2])))

Currencies ==
    {[tag |-> "Kusama"], [tag |-> "Polkadot"], [tag |-> "Westend"],
     [tag |-> "Custom", unit |-> DecPow10(0)],
     [tag |-> "Custom", unit |-> DecPow10(3)]}

\* amounts handed to balance(): small ones, the amount of the documentation
\* (50) and of the test (50_000), and amounts near the end of the u128 range
BalanceAmounts ==
    {<<>>, <<1>>, <<5, 0>>, <<9, 9, 9>>, <<1, 0, 0, 0>>, <<5, 0, 0, 0, 0>>,
     <<1, 2, 3, 4, 5, 6, 7, 8, 9>>, DecPow10(15), DecPow10(23),
     Take(u128_MAX, 23), DecPow10(24), DecPow10(26), DecPow10(27)}

\* BalanceBuilder::new(currency).balance(n), then as_base_unit() and
\* as_metric(metric) on the result; balance() unwraps balance_as_metric
BalanceConvert ==
    /\ called = ""
    /\ \E currency \in Currencies, n \in BalanceAmounts, metric \in Metrics :
         LET b == balance_as_metric(Currency_base_unit(currency), "One", n)
         IN  Return("balance",
                    [currency |-> currency, n |-> n, metric |-> metric],
                    IF b = None THEN [status |-> "Panic"]
                    ELSE [status |-> "Ok", balance |-> b[1],
                          as_base_unit |-> Balance_as_base_unit(b[1]),
                          as_metric |-> Balance_as_metric(b[1], metric)])


LibraryNext ==
    \/ MortalityEncode
    \/ MortalityDecode
    \/ TransactionDecode
    \/ FindModuleExtrinsic
    \/ Ss58Encode
    \/ Ss58Decode
    \/ FromSs58Address
    \/ IntoInner
    \/ BalanceConvert

SpecLibrary == LibraryInit /\ [][LibraryNext]_vars

-----------------------------------------------------------------------------
(* Properties.                                                             *)

Built == pc # "builder" /\ result.op = "build"
BuiltOk == Built /\ result.status = "Ok"
Mandatory == <<"signer", "call", "nonce", "payment", "network">>
AllMandatorySet == \A i \in 1..Len(Mandatory) : builder[Mandatory[i]] # None

\* C1: every transaction returned Ok by build() decodes from its own encoding,
\* at the same type, to a transaction equal to the original (address,
\* signature, Payload with its mortality value, call).  Stated here for the
\* calls with a derived codec, the call type of the repository's round-trip
\* test.
C1_RoundTrip ==
    (pc = "decoded" /\ BuiltOk /\ result.tx[1].call.kind = "derived"
        /\ \A i \in 1..Len(result.tx[1].call.args) :
             result.tx[1].call.args[i].ty # "Balance")
    => (decoded.status = "Ok" /\ decoded.tx = result.tx)

\* what the signer must be handed for the signature payload bytes b
ExpectedToSign(b) == IF Len(b) <= 256 THEN b ELSE blake2b(b)

\* C2: the bytes handed to the signer are SCALE(call) || SCALE(Payload) ||
\* SCALE(ExtraSignaturePayload) unchanged when at most 256 bytes long, their
\* 32-byte BLAKE2b-256 digest when 257 bytes or longer, and no signature
\* payload encoder of the repository uses another threshold.
C2_SignerBytes ==
    /\ \A i \in 1..Len(signed) :
         signed[i].message = ExpectedToSign(signed[i].sig_bytes)
    /\ pc = "drafted" => handed.bytes = ExpectedToSign(signed[Len(signed)].sig_bytes)

\* C3: the encoding of a transaction is SCALE_compact(len(body)) || body; body
\* starts with 0x84 when the signature is present and 0x04 when it is absent,
\* followed (only when signed) by the encoded address, signature and payload
\* and then by the call bytes.
C3_Envelope ==
    pc \in {"encoded", "decoded"} =>
        LET tx == result.tx[1]
            sigPart == IF tx.signature = None THEN <<>>
                       ELSE AccountId_using_encoded(tx.signature[1].address)
                              \o MultiSignature_using_encoded(tx.signature[1].sig)
                              \o Payload_encode(tx.signature[1].payload)
            body == <<IF tx.signature = None THEN 4 ELSE 132>> \o sigPart
                        \o Call_encode(tx.call)
        IN  encoded = Compact_encode(Len(body)) \o body

\* C3 witness: a signed transaction whose body needs a two-byte length prefix
\* has been encoded.
C3_Witness ==
    /\ pc = "encoded"
    /\ result.tx[1].signature # None
    /\ Len(encoded) > 250
    /\ encoded[3] = 132

\* C4: build() on a builder that lacks a mandatory field returns
\* BuilderMissingField naming the first absent field in the order signer,
\* call, nonce, payment, network, and performs no signing operation.
C4_MissingField ==
    Built =>
        \A i \in 1..Len(Mandatory) :
            (builder[Mandatory[i]] = None
                /\ \A j \in 1..(i - 1) : builder[Mandatory[j]] # None)
            => (result.status = "Err" /\ result.err = Mandatory[i]
                   /\ result.tx = None /\ signed = <<>>)

\* C4 witness: build() ran with payment and network both absent and everything
\* before them set, and named payment.
C4_Witness ==
    /\ Built
    /\ builder.signer # None /\ builder.call # None /\ builder.nonce # None
    /\ builder.payment = None /\ builder.network = None
    /\ result.err = "payment"

SpecVersionResolvable ==
    builder.spec_version # None \/ builder.network[1] \in {"Kusama", "Polkadot"}
MortalWithoutBirth ==
    builder.mortality.tag = "Mortal" /\ builder.mortality.birth = None

\* C5 (as stated): build() on a builder with all mandatory fields set and a
\* mortality Mortal(period, phase, None) fails with MissingField("birth") and
\* performs no signing operation.
C5_MissingBirthOriginal ==
    (Built /\ AllMandatorySet /\ MortalWithoutBirth)
    => (result.status = "Err" /\ result.err = "birth" /\ signed = <<>>)

\* C5 (amended): build() on a builder with all mandatory fields set, a
\* spec_version that is set or defaulted (Kusama, Polkadot) and a mortality
\* Mortal(period, phase, None) fails with
\* BuilderMissingField("no birth block in Mortality") and performs no signing
\* operation.
C5_MissingBirth ==
    (Built /\ AllMandatorySet /\ SpecVersionResolvable /\ MortalWithoutBirth)
    => (result.status = "Err" /\ result.err = "no birth block in Mortality"
           /\ result.tx = None /\ signed = <<>>)

\* C5 witness: build() ran on a complete builder with Mortal(64, 5, None) and
\* reported the missing birth block.
C5_Witness ==
    /\ Built /\ AllMandatorySet /\ MortalWithoutBirth
    /\ builder.network[1] = "Westend" /\ builder.spec_version # None
    /\ result.status = "Err" /\ result.err = "no birth block in Mortality"

\* C6: with all mandatory fields set and spec_version never set, build()
\* succeeds for Kusama and Polkadot with the library's default spec_version of
\* that network and returns BuilderMissingField("spec_version") for every
\* other network; a spec_version that was set is used for every network.
\* (Stated for the mortalities build() accepts.)
C6_SpecVersion ==
    (Built /\ AllMandatorySet /\ ~MortalWithoutBirth) =>
        LET net == builder.network[1]
        IN  IF builder.spec_version = None
            THEN IF net \in {"Kusama", "Polkadot"}
                 THEN /\ result.status = "Ok"
                      /\ signed[1].extra.spec_version =
                           (IF net = "Kusama" THEN kusama_SPEC_VERSION
                            ELSE polkadot_SPEC_VERSION)
                 ELSE result.status = "Err" /\ result.err = "spec_version"
            ELSE /\ result.status = "Ok"
                 /\ signed[1].extra.spec_version = builder.spec_version[1]

\* C7: the ExtraSignaturePayload signed by build() has tx_version 4, genesis
\* network.genesis(), the resolved spec_version, and birth equal to the
\* genesis hash for Immortal and to h for Mortal(_, _, Some(h)); its encoding
\* is the tail of the signature payload bytes.
C7_ExtraPayload ==
    \A i \in 1..Len(signed) :
        LET e == signed[i].extra
            net == builder.network[1]
            b == signed[i].sig_bytes
        IN  /\ e.tx_version = 4
            /\ e.genesis = Network_genesis(net)
            /\ IF builder.spec_version # None
               THEN e.spec_version = builder.spec_version[1]
               ELSE \/ net = "Kusama" /\ e.spec_version = kusama_SPEC_VERSION
                    \/ net = "Polkadot" /\ e.spec_version = polkadot_SPEC_VERSION
            /\ IF builder.mortality.tag = "Immortal"
               THEN e.birth = Network_genesis(net)
               ELSE builder.mortality.birth = Some(e.birth)
            /\ Len(b) >= 72
            /\ SubSeq(b, Len(b) - 71, Len(b)) =
                 U32_encode(e.spec_version) \o U32_encode(4) \o e.genesis \o e.birth

\* C7 witness: a mortal transaction with birth hash BirthHash was signed on
\* Kusama with the default spec_version.
C7_Witness ==
    /\ signed # <<>>
    /\ builder.mortality.tag = "Mortal"
    /\ builder.network[1] = "Kusama" /\ builder.spec_version = None
    /\ signed[1].extra.birth = BirthHash
    /\ signed[1].extra.birth # signed[1].extra.genesis

\* C8: in every transaction returned by build() the Payload of the signature
\* tuple is the Payload {mortality, nonce, payment} that was signed and the
\* call is the call that was signed; the ExtraSignaturePayload is part of the
\* signed bytes only: the envelope holds the length prefix, the version byte,
\* the address, the signature, the Payload and the call, and nothing else.
C8_SignedVsEnvelope ==
    BuiltOk =>
        LET tx == result.tx[1]
            op == signed[Len(signed)]
        IN  /\ Len(signed) = 1
            /\ tx.signature[1].payload = op.payload
            /\ op.payload = [mortality |-> builder.mortality,
                             nonce |-> builder.nonce[1],
                             payment |-> builder.payment[1]]
            /\ tx.call = op.call /\ op.call = builder.call[1]
            /\ op.sig_bytes = Call_encode(op.call) \o Payload_encode(op.payload)
                                \o ExtraSignaturePayload_encode(op.extra)
            /\ pc \in {"encoded", "decoded"} =>
                 \E n \in 1..5 :
                    /\ Take(encoded, n) = Compact_encode(Len(encoded) - n)
                    /\ Len(encoded) = n + 1 + 33 + 1 + Len(tx.signature[1].sig.bytes)
                                        + Len(Payload_encode(op.payload))
                                        + Len(Call_encode(op.call))

\* C8 witness: a mortal transaction with nonce 64 was built and encoded.
C8_Witness ==
    /\ pc = "encoded" /\ BuiltOk
    /\ builder.mortality.tag = "Mortal" /\ builder.nonce[1] = 64
    /\ result.tx[1].signature[1].payload.mortality = builder.mortality

\* C9: the encoding of a generated extrinsic type is the byte module_id, the
\* byte dispatch_id and the encodings of its arguments in declared order, and
\* the generated Decode applied to that encoding returns the original value.
C9_GeneratedCall ==
    (pc \in {"encoded", "decoded"} /\ result.tx[1].call.kind = "generated") =>
        LET c == result.tx[1].call
            expected == <<c.module_id, c.dispatch_id>> \o Args_encode(c.args)
        IN  /\ Len(encoded) >= Len(expected)
            /\ SubSeq(encoded, Len(encoded) - Len(expected) + 1, Len(encoded))
                 = expected
            /\ Generated_decode(CallType(c), Generated_using_encoded(c))
                 = DecodeOk(c, <<>>)

\* the fixture of C10: Sr25519 signer, nonce 0, immortal, explicit spec_version
C10_Fixture ==
    /\ BuiltOk
    /\ builder.signer[1].scheme = "Sr25519"
    /\ builder.nonce[1] = 0
    /\ builder.mortality = Immortal
    /\ builder.spec_version # None
HasBalanceArg(c) == \E i \in 1..Len(c.args) : c.args[i].ty = "Balance"

\* C10 (as stated): a signed transaction built with an Sr25519 signer over
\* TransferKeepAlive { dest: AccountId, value: Balance } (nonce 0, immortal,
\* explicit spec_version) decodes from its encoding, at the same type, to a
\* transaction equal to the original.
C10_BalanceRoundTripOriginal ==
    (pc = "decoded" /\ C10_Fixture
        /\ builder.call[1] = TransferKeepAlive(Fill(32, 0), <<1000, 1000>>))
    => (decoded.status = "Ok" /\ decoded.tx = result.tx)

\* C10 (amended): a signed transaction built with an Sr25519 signer whose call
\* carries a Balance argument (nonce 0, immortal, explicit spec_version) can
\* be encoded, but decoding the encoding at the same type returns an error
\* and no transaction.
C10_BalanceDecodeFails ==
    (pc = "decoded" /\ C10_Fixture /\ HasBalanceArg(builder.call[1]))
    => (Len(encoded) > 100 /\ decoded.status = "Err" /\ decoded.tx = None)

\* C10 witness: the TransferKeepAlive fixture was built, encoded and its
\* decoding failed.
C10_Witness ==
    /\ pc = "decoded" /\ C10_Fixture
    /\ builder.call[1] = TransferKeepAlive(Fill(32, 0), <<1000, 1000>>)
    /\ builder.network[1] = "Westend"
    /\ decoded.status = "Err"

-----------------------------------------------------------------------------
(* Properties of the collector (under SpecCollector).                      *)

\* a task whose local() has returned an error
Stopped(c) == c.pc \in {"send", "done", "panicked"}
\* a task that is the only one configured with its directory
OwnDirectory(t) ==
    \A u \in DOMAIN config :
        u # t => Filesystem_path(config[u]) # Filesystem_path(config[t])

\* C11: within one run of a collector, last_block starts at the persisted
\* value (0 without a state file), grows by exactly 1 for each processed
\* block hash and never otherwise, the hash being processed is always that of
\* block number last_block, and every batch is a run of consecutive numbers
\* that starts at last_block, the number after the last processed block.
C11_AscendingOrder ==
    [][\A t \in DOMAIN collector :
         LET c == collector[t]
             d == collector'[t]
             persisted == read_last_state(files, config[t])
         IN  (runs' = runs /\ ~Stopped(d)) =>
               /\ (c.pc = "read_last_state" /\ d.pc = "loop") =>
                     d.state.last_block =
                        (IF persisted.v = None THEN 0
                         ELSE persisted.v[1].last_block)
               /\ (c.pc = "write_state" /\ d.pc = "for") =>
                     /\ d.state.last_block = c.state.last_block + 1
                     /\ c.hash = Some(c.state.last_block)
               /\ (c.pc \notin {"read_last_state", "write_state"}) =>
                     d.state.last_block = c.state.last_block
               /\ (d.pc = "fetched") => d.hash = Some(d.state.last_block)
               /\ (c.pc = "loop" /\ d.pc = "for") =>
                     /\ d.header_hashes = d.range
                     /\ \A i \in 1..Len(d.range) :
                            d.range[i] = d.state.last_block + i - 1
    ]_vars

\* C11 witness: a task that processed blocks 0..30 in its first batch is
\* processing block 31, the first hash of its second batch.
C11_Witness ==
    \E t \in DOMAIN collector :
        /\ runs = 1
        /\ collector[t].pc = "write_state"
        /\ collector[t].range = <<31>>
        /\ collector[t].hash = Some(31)
        /\ collector[t].state.last_block = 31

\* C12: every chain_getBlockHash request asks for at most BLOCK_HASH_LIMIT
\* block numbers, whatever last_block and the head are.
C12_BatchLimit ==
    \A t \in DOMAIN collector : Len(collector[t].range) <= BLOCK_HASH_LIMIT

\* both sidecar files of runtime version v of chain name exist in the
\* directory of cfg, completely written
SidecarsExist(cfg, name, v) ==
    LET version == [spec_name |-> name, spec_version |-> v]
    IN  /\ VersionPath(cfg, version) \in DOMAIN files
        /\ MetadataPath(cfg, version) \in DOMAIN files
        /\ Len(files[VersionPath(cfg, version)]) = 1
        /\ Len(files[MetadataPath(cfg, version)]) = 1

\* C13: the sidecar files of a new spec_version are written and synced
\* before .collection_state is rewritten with it, so whenever the
\* .collection_state of a collector holds a spec_version v, both sidecar
\* files of v exist.  (Stated for a collector that has its directory to
\* itself.)
C13_SidecarsBeforeState ==
    \A t \in DOMAIN config :
        LET p == StatePath(config[t])
        IN  (OwnDirectory(t) /\ p \in DOMAIN files /\ Len(files[p]) = 1) =>
               SidecarsExist(config[t], config[t].chain_name,
                             files[p][1].spec_version)

\* C14: a collector that is restarted after a stop or crash at any point
\* starts from the persisted state: reading the state back does not fail.
\* (Stated for a collector that has its directory to itself.)
C14_RestartSafe ==
    \A t \in DOMAIN collector :
        (runs > 1 /\ OwnDirectory(t)) => collector[t].err # "read_last_state"

\* C15: when the runtime version fetched for a block reports a spec_name
\* other than the configured chain_name, the next step of the task is the
\* return of the error: no file is created, written or read for that block,
\* and when it is the first block of a collector started alone in an empty
\* directory, no file exists afterwards.
C15_WrongChain ==
    [][\A t \in DOMAIN collector :
         LET c == collector[t]
             d == collector'[t]
         IN  (c.pc = "fetched" /\ c.version.spec_name # config[t].chain_name
                /\ d # c /\ runs' = runs) =>
               /\ d = Failed("wrong_chain")
               /\ files' = files
               /\ touched' = touched
               /\ (Len(config) = 1 /\ runs = 1 /\ c.state.last_block = 0) =>
                     files' = EmptyFs
    ]_vars

\* C15 witness: a collector configured for kusama that fetched the runtime
\* version of a polkadot block as its first block has returned the error and
\* the file system is empty.
C15_Witness ==
    /\ Len(config) = 1 /\ runs = 1
    /\ config[1].chain_name = "kusama" /\ config[1].endpoint = "polkadot"
    /\ collector[1] = Failed("wrong_chain")
    /\ touched[1] = {StatePath(config[1])}
    /\ files = EmptyFs

\* C16: when a task's loop returns an error a shutdown message is posted and
\* run() returns after the first message it receives; no failing task panics
\* on the send, whatever the number of failing tasks and their interleaving.
C16_ShutdownSignal ==
    /\ \A t \in DOMAIN collector : collector[t].pc # "panicked"
    /\ run_pc # "recv" => \E t \in DOMAIN collector : collector[t].pc = "done"

\* C17: two collector tasks for different chains never read, create or write
\* the same path.
C17_OwnFiles ==
    \A t, u \in DOMAIN config :
        (t # u /\ config[t].chain_name # config[u].chain_name) =>
            touched[t] \cap touched[u] = {}

\* C18: when run() is stopped with every collector caught up with the head
\* of its node and started again on the same, unchanged chains, then once
\* every collector has caught up again the file system (every sidecar file
\* with its content, and .collection_state) is what it was at the stop.
\* (Stated for collectors that have their directory to themselves.)
C18_Idempotent ==
    (/\ runs > 1
     /\ at_stop.caught_up
     /\ chain.head = at_stop.head
     /\ AllCaughtUp
     /\ \A t \in DOMAIN config : OwnDirectory(t))
    => files = at_stop.files

\* C18 witness: the collector of the 32-block kusama chain was stopped caught
\* up, run again, and has caught up again on block 31 with the three
\* runtime versions of the chain recorded.
C18_Witness ==
    /\ runs = 2 /\ at_stop.caught_up /\ AllCaughtUp
    /\ Len(config) = 1
    /\ chain.head = at_stop.head
    /\ chain.head[config[1].endpoint] = 31
    /\ files[StatePath(config[1])] = <<LatestInfo(1022, 31)>>
    /\ collector[1].hash = Some(31)
    /\ \A v \in {1020, 1021, 1022} : SidecarsExist(config[1], "kusama", v)

\* C19: no chain_getBlockHash request names a block above the head fetched
\* last; after a batch the task sleeps TIMEOUT seconds exactly when the head
\* fetched last is below its next block number, and else goes straight to
\* the next request; after the sleep it fetches the head again before the
\* next request.
C19_SleepWhenCaughtUp ==
    [][\A t \in DOMAIN collector :
         LET c == collector[t]
             d == collector'[t]
         IN  (d # c /\ runs' = runs) =>
               /\ (c.pc = "loop" /\ d.pc = "for") =>
                     \A i \in 1..Len(d.range) : d.range[i] <= c.latest
               /\ (c.pc = "for" /\ c.header_hashes = <<>>) =>
                     IF c.latest < c.state.last_block
                     THEN d.pc = "sleep" /\ d.timer = TIMEOUT
                     ELSE d.pc = "loop" /\ d.timer = 0
               /\ (d.pc = "sleep") => (c.pc = "for" /\ c.header_hashes = <<>>)
               /\ (c.pc = "sleep" /\ ~Stopped(d)) =>
                     /\ d.pc = "loop"
                     /\ d.latest = chain.head[config[t].endpoint]
               /\ (d.pc = "loop") => c.pc \in {"read_last_state", "for", "sleep"}
    ]_vars

\* C19 witness: a task that slept after block 31 fetched the head again,
\* found block 32 and requested its hash.
C19_Witness ==
    \E t \in DOMAIN collector :
        /\ runs = 1
        /\ collector[t].pc = "for"
        /\ collector[t].range = <<32>>
        /\ collector[t].latest = 32
        /\ collector[t].state.last_block = 32

-----------------------------------------------------------------------------
(* Properties of Mortality (under Spec).                                   *)

IsPowerOfTwo(n) == \E k \in 0..30 : n = Pow2(k)
ValidMortal(m) ==
    /\ IsPowerOfTwo(m.period)
    /\ m.period >= 4 /\ m.period <= 65536
    /\ m.phase < m.period

\* C20: every Mortal carried by a transaction that build() returned has a
\* period that is a power of two in [4, 65536] and a phase below the period.
C20_ValidMortality ==
    BuiltOk =>
        LET m == result.tx[1].signature[1].payload.mortality
        IN  m.tag = "Mortal" => ValidMortal(m)

-----------------------------------------------------------------------------
(* Properties of the library's operations (under SpecLibrary, or under     *)
(* Spec where the property says so).                                       *)

\* C21: Immortal encodes as the single byte 0 and decodes back to Immortal;
\* for every period that is a power of two in [4, 65536] and every phase below
\* the period that is a multiple of max(1, period >> 12), Mortal(period,
\* phase, b) encodes as exactly two bytes whose first byte is not zero, and
\* they decode to Mortal(period, phase, None); decode rejects any two bytes
\* that give a period below 4 or a phase that is not below the period.
C21_MortalityCodec ==
    /\ called = "Mortality::encode" /\ given.tag = "Immortal" =>
            /\ returned.bytes = <<0>>
            /\ returned.decoded = DecodeOk(Immortal, <<>>)
    /\ (/\ called = "Mortality::encode"
        /\ given.tag = "Mortal"
        /\ ValidMortal(given)
        /\ given.phase % Max(given.period \div 4096, 1) = 0) =>
            /\ Len(returned.bytes) = 2
            /\ returned.bytes[1] # 0
            /\ returned.decoded
                  = DecodeOk(Mortal(given.period, given.phase, None), <<>>)
    /\ called = "Mortality::decode" /\ given[1] # 0 =>
            LET enc == given[1] + 256 * given[2]
                period == 2 * Pow2(enc % 16)
                phase == (enc \div 16) * Max(period \div 4096, 1)
            IN  period < 4 \/ phase >= period => ~returned.ok

\* the largest period with its largest phase has made the round trip, and a
\* two-byte given with a phase beyond its period has been rejected
C21_Witness ==
    /\ called = "Mortality::encode"
    /\ given = Mortal(65536, 65520, Some(BirthHash))
    /\ returned.decoded = DecodeOk(Mortal(65536, 65520, None), <<>>)

\* C22: converting the signer's MultiKeyPair into an AccountId, as build()
\* does once the fields are checked and the payload is signed, returns a value
\* for all three schemes: the 32-byte public key for Ed25519 and Sr25519, the
\* BLAKE2b-256 hash of the 33-byte compressed public key for ECDSA.
C22_AccountIdOfSigner ==
    Built /\ result.status # "Err" =>
        LET pair == builder.signer[1]
        IN  /\ result.status = "Ok"
            /\ result.tx[1].signature[1].address
                 = IF pair.scheme = "Ecdsa" THEN blake2b(pair.public)
                   ELSE pair.public


\* C26: for every call value, Transaction::new_unsigned(call) has no
\* signature, and decoding its SCALE encoding yields a transaction equal to
\* the original (signature absent, same call).
C26_UnsignedRoundTrip ==
    /\ result.op = "new_unsigned" =>
           result.tx[1].signature = None
    /\ pc = "decoded" /\ result.op = "new_unsigned" =>
           /\ decoded.status = "Ok"
           /\ decoded.tx = result.tx

\* C27: Transaction::decode returns an error, and no Transaction, whenever
\* the byte that follows the compact length prefix is neither 0x84 nor 0x04.
C27_VersionByte ==
    called = "Transaction::decode" =>
        LET len == Compact_decode(given.bytes)
        IN  (len.ok /\ len.rest # <<>> /\ Head(len.rest) \notin {132, 4})
                => (~returned.ok /\ returned.v = <<>>)

\* the encoding of a signed transaction with its version byte turned into
\* 0x85 was offered and refused
C27_Witness ==
    /\ called = "Transaction::decode"
    /\ LET len == Compact_decode(given.bytes)
       IN  /\ len.ok /\ Head(len.rest) = 133
           /\ SignatureTuple_decode(Tail(len.rest)).ok
    /\ ~returned.ok

\* C29: after any sequence of setter calls (the builder holds, per field, the
\* value of the last call for it, and the mortality is Immortal until set),
\* build() returns Ok if and only if signer, call, nonce, payment and network
\* have all been set, spec_version has been set or the network is Kusama or
\* Polkadot, and the mortality is not Mortal(_, _, None); otherwise build()
\* returns an error and no transaction.
C29_BuildReady ==
    /\ pc = "builder" /\ builder = NewBuilder => builder.mortality = Immortal
    /\ Built =>
        IF AllMandatorySet /\ SpecVersionResolvable /\ ~MortalWithoutBirth
        THEN result.status = "Ok" /\ result.tx # None
        ELSE result.status = "Err" /\ result.tx = None

\* C24: find_module_extrinsic(m, e) returns Some(info) with info.module_id the
\* position in the modules list of the first module named m (modules without
\* calls count as positions) and info.dispatch_id the position of the first
\* call named e in that module's call list; it returns None when no module is
\* named m, that module has no calls, or it has no call named e; a Some result
\* equals the entry of modules_extrinsics() with the same (module_id,
\* dispatch_id).
C24_FindModuleExtrinsic ==
    called = "find_module_extrinsic" =>
        LET modules == given.metadata.modules
            named == {i \in 1..Len(modules) : modules[i].name = given.method}
            first == CHOOSE i \in named : \A k \in named : i <= k
            calls == modules[first].calls[1]
            hits == {j \in 1..Len(calls) : calls[j].name = given.extrinsic}
            firstHit == CHOOSE j \in hits : \A k \in hits : j <= k
            found == returned.found
            all == returned.all
        IN  IF named = {} \/ modules[first].calls = None \/ hits = {}
            THEN found = None
            ELSE /\ found # None
                 /\ found[1].module_id = first - 1
                 /\ found[1].dispatch_id = firstHit - 1
                 /\ \E k \in 1..Len(all) :
                        /\ all[k].module_id = found[1].module_id
                        /\ all[k].dispatch_id = found[1].dispatch_id
                 /\ \A k \in 1..Len(all) :
                        (/\ all[k].module_id = found[1].module_id
                         /\ all[k].dispatch_id = found[1].dispatch_id)
                        => all[k] = found[1]

\* a module without calls stands before the module that was asked for, and the
\* call that was asked for is the second of two calls of that name's list
C24_Witness ==
    /\ called = "find_module_extrinsic"
    /\ Len(given.metadata.modules) = 2
    /\ given.metadata.modules[1].calls = None
    /\ given.metadata.modules[1].name # given.method
    /\ returned.found # None
    /\ returned.found[1].module_id = 1
    /\ returned.found[1].dispatch_id = 1

\* C23: no public library operation panics on malformed caller-supplied
\* input: AccountId::from_ss58_address and Ss58Codec::from_string_with_version
\* given a string with invalid base58, a wrong length, a first byte above 127
\* or a wrong checksum, and MetadataVersion::into_inner given metadata of a
\* version other than 13, return an error value instead of aborting.
C23_NoPanic ==
    called \in {"from_ss58_address", "from_string_with_version", "into_inner"}
        => returned.status \in {"Ok", "Err"}

\* C25: for every 32-byte payload and every network identifier in 0..16383,
\* decoding the string produced by to_string_with_version returns the payload
\* and the address format of that identifier; the prefix is one byte equal to
\* the identifier for 0..63 and two bytes with the first in 64..127 for
\* 64..16383; a string whose trailing two bytes differ from the recomputed
\* checksum is rejected.
C25_Ss58RoundTrip ==
    /\ called = "to_string_with_version" =>
        /\ returned.decoded.status = "Ok"
        /\ returned.decoded.v
             = <<given.payload, Ss58AddressFormat_from(given.ident)>>
        /\ IF given.ident <= 63
           THEN /\ Len(returned.bytes) = 1 + 32 + 2
                /\ returned.bytes[1] = given.ident
           ELSE /\ Len(returned.bytes) = 2 + 32 + 2
                /\ returned.bytes[1] \in 64..127
        /\ from_base58(returned.string) = [ok |-> TRUE, v |-> returned.bytes]
    /\ called = "from_string_with_version" =>
        LET data == from_base58(given)
            n == Len(data.v)
        IN  (/\ data.ok
             /\ n > 2
             /\ SubSeq(data.v, n - 1, n) # Take(ss58hash(Take(data.v, n - 2)), 2))
            => returned.status # "Ok"

\* the round trip was made with the largest identifier and a payload of
\* distinct bytes
C25_Witness ==
    /\ called = "to_string_with_version"
    /\ given.ident = 16383
    /\ given.payload[1] # given.payload[2]
    /\ returned.decoded.status = "Ok"
    /\ returned.bytes[1] = 127 /\ returned.bytes[2] = 255

\* C28: for b = BalanceBuilder::new(currency).balance(n) with n >= 1 and
\* n * base_unit not overflowing u128: b.as_base_unit() = n * base_unit and
\* b.as_metric(One) = Some(n); for a sub-unit metric (Milli, Micro, ...)
\* as_metric returns Some(n * 10^k); for a super-unit metric (Kilo, Mega, ...)
\* it returns Some(n / 10^k) when that quotient is not zero and None when the
\* balance cannot be represented in that metric.
C28_BalanceMetrics ==
    LET unit == Exp10(Currency_base_unit(given.currency))
        n == given.n
        metric == Metric(given.metric)
    IN  (/\ called = "balance"
         /\ n # <<>>
         /\ ~DecLess(u128_MAX, n \o Fill(unit, 0))) =>
            /\ returned.status = "Ok"
            /\ returned.as_base_unit = n \o Fill(unit, 0)
            /\ returned.as_metric
                 = CASE metric.exp = 0 -> Some(n)
                     [] metric.exp > 0 /\ metric.sign = -1 ->
                          Some(n \o Fill(metric.exp, 0))
                     [] OTHER ->
                          IF Len(n) > metric.exp
                          THEN Some(Take(n, Len(n) - metric.exp))
                          ELSE None

-----------------------------------------------------------------------------
(* Liveness of the collector loop.  The collectors run against nodes that  *)
(* answer every request (one hash per requested number, the spec_name of   *)
(* the configured chain), each with a directory of its own; the process is *)
(* stopped only while every task sleeps.  A file operation may still fail. *)
(* tokio polls every spawned task that can make progress: each task is     *)
(* weakly fair.                                                            *)

\* the heads the node of the t-th collector starts with
HeadsOf(t) ==
    { sc.head[sc.collectors[t].endpoint] :
        sc \in {s \in Scenarios : Len(s.collectors) >= t} }

\* every block the node of the t-th collector can have in a run of the model
BlocksOf(t) ==
    0..((CHOOSE h \in HeadsOf(t) : \A g \in HeadsOf(t) : g <= h) + MaxGrowth)

\* the runtime of every block of the node reports the configured chain name
HonestNode(t) ==
    \A n \in BlocksOf(t) :
        Node_spec_name(config[t].endpoint, n) = config[t].chain_name

\* no JSON-RPC call of any task has failed
NodeAnswers == \A t \in DOMAIN collector : collector[t].err # "rpc"

\* a file operation of some task has failed
FileError ==
    \E t \in DOMAIN collector : collector[t].err \in {"io", "read_last_state"}

FairInit ==
    /\ CollectorInit
    /\ \A t \in DOMAIN config : HonestNode(t) /\ OwnDirectory(t)

\* one step of do_run(tx, config[t]) against a node that answers
TaskStep(t) ==
    /\ t \in DOMAIN collector
    /\ \/ LatestBlock(t)
       \/ ReadLastState(t)
       \/ RequestHashes(t)
       \/ FetchRuntime(t)
       \/ CheckVersion(t)
       \/ CreateVersion(t)
       \/ WriteVersion(t)
       \/ CreateMetadata(t)
       \/ WriteMetadata(t)
       \/ CreateState(t)
       \/ WriteState(t)
       \/ EndOfBatch(t)
       \/ Requery(t)
       \/ Send(t)
    /\ NodeAnswers'

FairNext ==
    \/ \E t \in DOMAIN collector : LatestBlock(t) /\ NodeAnswers'
    \/ \E t \in DOMAIN collector : ReadLastState(t) /\ NodeAnswers'
    \/ \E t \in DOMAIN collector : RequestHashes(t) /\ NodeAnswers'
    \/ \E t \in DOMAIN collector : FetchRuntime(t) /\ NodeAnswers'
    \/ \E t \in DOMAIN collector : CheckVersion(t) /\ NodeAnswers'
    \/ \E t \in DOMAIN collector : CreateVersion(t) /\ NodeAnswers'
    \/ \E t \in DOMAIN collector : WriteVersion(t) /\ NodeAnswers'
    \/ \E t \in DOMAIN collector : CreateMetadata(t) /\ NodeAnswers'
    \/ \E t \in DOMAIN collector : WriteMetadata(t) /\ NodeAnswers'
    \/ \E t \in DOMAIN collector : CreateState(t) /\ NodeAnswers'
    \/ \E t \in DOMAIN collector : WriteState(t) /\ NodeAnswers'
    \/ \E t \in DOMAIN collector : EndOfBatch(t) /\ NodeAnswers'
    \/ \E t \in DOMAIN collector : Requery(t) /\ NodeAnswers'
    \/ \E t \in DOMAIN collector : Send(t) /\ NodeAnswers'
    \/ RunRecv
    \/ RunReturn
    \/ GrowChain
    \/ AllCaughtUp /\ Restart

SpecCollectorFair ==
    /\ FairInit
    /\ [][FairNext]_vars
    /\ \A t \in 1..2 : WF_vars(TaskStep(t))

\* block b is at or after the persisted last_block of task t (0 without a
\* state file) and at or below the head of its node
InScope(t, b) ==
    /\ t \in DOMAIN config
    /\ LET r == read_last_state(files, config[t])
       IN  /\ r.ok
           /\ (IF r.v = None THEN 0 ELSE r.v[1].last_block) <= b
    /\ b <= chain.head[config[t].endpoint]

\* the state file of task t records block b with the runtime version
\* fetched for it
Processed(t, b) ==
    /\ t \in DOMAIN config
    /\ LET r == read_last_state(files, config[t])
       IN  /\ r.ok
           /\ r.v # None
           /\ r.v[1] = LatestInfo(Node_spec_version(config[t].endpoint, b), b)

====
